---- MODULE Spec2Model ----
(***************************************************************************)
(* Optimistic-ACK testbed: the Defense System, the Security Middleware,    *)
(* the Streaming Server's protected routes and the Attack Orchestrator's   *)
(* optimistic-ACK loop, as state machines.                                 *)
(*                                                                         *)
(* Representation:                                                         *)
(*  - anomaly scores and suspiciousPatternThreshold are in hundredths      *)
(*    (0.7 is 70), maxWindowGrowthRate in tenths (2.0 is 20);              *)
(*  - an IP address is the sequence of its ':'-separated pieces, a         *)
(*    connection id `${ip}:${port}` is the IP's pieces followed by the     *)
(*    port, so that split(':')[0] is Head;                                 *)
(*  - a user agent is the sequence of the tokens it contains,              *)
(*    includes(marker) is membership, " " is a blank token;                *)
(*  - a reason is the fixed text of its message, without the values       *)
(*    interpolated after it;                                               *)
(*  - time is Date.now() in milliseconds; timers fire when due.            *)
(***************************************************************************)
EXTENDS Integers, Sequences, FiniteSets, TLC

VARIABLES
    config,            \* SecurityMiddleware.config, handed to the DefenseSystem
    now,               \* Date.now()
    connectionStates,  \* DefenseSystem.connectionStates: connection id -> ConnectionState
    quarantinedIPs,    \* DefenseSystem.quarantinedIPs
    quarantineTimers,  \* pending setTimeout(removeFromQuarantine) of quarantineIP
    nextCleanup,       \* next firing of the DefenseSystem cleanup interval
    blocklist,         \* SecurityMiddleware.blocklist
    blocklistTimers,   \* pending setTimeout(blocklist.delete) of addToBlocklist
    connectionCounts,  \* SecurityMiddleware.connectionCounts
    lastCall,          \* the last DefenseSystem call: its arguments, result and effects
    enteredAt,         \* history: when each IP last entered the quarantine set
    lastRelease,       \* history: the last removal of an IP from the quarantine set
    response,          \* the last HTTP request and what the middleware answered
    attacker,          \* the Attack Orchestrator
    calls,             \* the number of calls made to the Defense System
    download,          \* a chunked download and the Range requests it issued
    construction,      \* the last new OptimisticACKAttacker(config) and its error
    rawSocket,         \* a RawSocketManager and the executeAttack that owns it
    app,               \* the App entry point: its realtime channel and the dashboard
    stream,            \* a playlist request: the directory, the text served, the client parse
    fileResponse,      \* the last /download request and what handleFileDownload answered
    results,           \* the speed metrics of an attack and the verdicts printed from them
    run,               \* one executeAttack: its phases, the loop timer, the transfer and its requests
    traffic,           \* the TrafficAnalyzer: its histories and its last signature
    connectionAnalyzer,\* the ConnectionAnalyzer and the ids it has returned
    observed,          \* history: when validateConnection last saw each connection
    ackLog,            \* history: when each connection was created and sent its ACKs
    panel,             \* the Live Streaming Panel: its state, its ref and its runs
    cli                \* the command line of the server and what parseArgs made of it

coreVars == <<config, now, connectionStates, quarantinedIPs, quarantineTimers, nextCleanup,
              blocklist, blocklistTimers, connectionCounts, lastCall, enteredAt,
              lastRelease, response, attacker, calls>>

\* The variables of the other components, and everything but one of them
toolVars == <<download, construction, rawSocket, app, stream, fileResponse, results, run, traffic, connectionAnalyzer, observed, ackLog, panel, cli>>
except_download == <<coreVars, construction, rawSocket, app, stream, fileResponse, results, run, traffic, connectionAnalyzer, observed, ackLog, panel, cli>>
except_construction == <<coreVars, download, rawSocket, app, stream, fileResponse, results, run, traffic, connectionAnalyzer, observed, ackLog, panel, cli>>
except_rawSocket == <<coreVars, download, construction, app, stream, fileResponse, results, run, traffic, connectionAnalyzer, observed, ackLog, panel, cli>>
except_app == <<coreVars, download, construction, rawSocket, stream, fileResponse, results, run, traffic, connectionAnalyzer, observed, ackLog, panel, cli>>
except_stream == <<coreVars, download, construction, rawSocket, app, fileResponse, results, run, traffic, connectionAnalyzer, observed, ackLog, panel, cli>>
except_fileResponse == <<coreVars, download, construction, rawSocket, app, stream, results, run, traffic, connectionAnalyzer, observed, ackLog, panel, cli>>
except_results == <<coreVars, download, construction, rawSocket, app, stream, fileResponse, run, traffic, connectionAnalyzer, observed, ackLog, panel, cli>>
except_run == <<coreVars, download, construction, rawSocket, app, stream, fileResponse, results, traffic, connectionAnalyzer, observed, ackLog, panel, cli>>
except_traffic == <<coreVars, download, construction, rawSocket, app, stream, fileResponse, results, run, connectionAnalyzer, observed, ackLog, panel, cli>>
except_connectionAnalyzer == <<coreVars, download, construction, rawSocket, app, stream, fileResponse, results, run, traffic, observed, ackLog, panel, cli>>
except_observed == <<coreVars, download, construction, rawSocket, app, stream, fileResponse, results, run, traffic, connectionAnalyzer, ackLog, panel, cli>>
except_ackLog == <<coreVars, download, construction, rawSocket, app, stream, fileResponse, results, run, traffic, connectionAnalyzer, observed, panel, cli>>
except_panel == <<coreVars, download, construction, rawSocket, app, stream, fileResponse, results, run, traffic, connectionAnalyzer, observed, ackLog, cli>>
except_cli == <<coreVars, download, construction, rawSocket, app, stream, fileResponse, results, run, traffic, connectionAnalyzer, observed, ackLog, panel>>

vars == <<coreVars, toolVars>>

defenseVars == <<connectionStates, quarantinedIPs, quarantineTimers, lastCall,
                 enteredAt, lastRelease, calls>>

----------------------------------------------------------------------------
(* Bounds of the model *)

MaxTicks == 3          \* the clock stops after MaxTicks cleanup periods
MaxCalls == 4          \* calls made to the Defense System
MaxConn == 51          \* simultaneous connections counted per IP
MaxPackets == 4        \* attack-loop ticks
MaxChunks == 3         \* the largest file holds MaxChunks chunks of 64 KB and a byte
MaxEvents == 4         \* events emitted on the realtime channel
MaxFileBytes == 4      \* size of the largest file under data/files
MaxRequests == 2       \* chunk or segment requests of one transfer
MaxWindowPackets == 5  \* packets analysed while window sizes vary
MaxGapPackets == 3     \* packets analysed while ack numbers vary
MaxLogged == 2         \* connections logged by the Connection Analyzer
MaxClock == 3          \* milliseconds its clock advances, far below its 30 s timer
MaxCleanups == 11      \* cleanup periods that pass while a connection is watched
MaxRateMs == 2000       \* milliseconds over which ACKs are counted
MaxBlocklistMs == 3000000  \* the time over which the blocklist is watched (50 min)
MaxStarts == 2         \* clicks on Start Stream
MaxSegments == 2       \* segments of the longest playlist
MaxArgs == 4           \* command-line arguments of the server
MaxHalfDays == 3       \* half days over which the Connection Analyzer is watched

----------------------------------------------------------------------------
(* Program constants *)

CleanupIntervalMs == 60000
InactiveMs == 600000
BlocklistMs == 1800000
MaxSeqDeviation == 65536
AckRegressionTolerance == 1024
StreamingMinAdvance == 32768
MinChunkSize == 65536
PanelChunkSize == 65536

Min(a, b) == IF a < b THEN a ELSE b
Max(a, b) == IF a > b THEN a ELSE b
Abs(a) == IF a < 0 THEN 0 - a ELSE a

----------------------------------------------------------------------------
(* Configuration *)

\* DefenseSystem constructor defaults
DefenseDefaults ==
    [ackValidationEnabled |-> TRUE, rateLimitingEnabled |-> TRUE,
     sequenceTrackingEnabled |-> TRUE, adaptiveWindowEnabled |-> TRUE,
     anomalyDetectionEnabled |-> TRUE, quarantineEnabled |-> TRUE,
     maxACKsPerSecond |-> 100, maxWindowGrowthRate |-> 20,
     maxSequenceGap |-> 1048576, suspiciousPatternThreshold |-> 70,
     quarantineDuration |-> 300000]

\* SecurityMiddleware constructor defaults
SecurityDefaults ==
    [enableSecurityHeaders |-> TRUE, enableConnectionThrottling |-> FALSE,
     maxConnectionsPerIP |-> 500, blocklistEnabled |-> TRUE,
     ackValidationEnabled |-> TRUE, rateLimitingEnabled |-> FALSE,
     sequenceTrackingEnabled |-> FALSE, adaptiveWindowEnabled |-> FALSE,
     anomalyDetectionEnabled |-> TRUE, quarantineEnabled |-> TRUE,
     maxACKsPerSecond |-> 1000, maxWindowGrowthRate |-> 100,
     maxSequenceGap |-> 10485760, suspiciousPatternThreshold |-> 90,
     quarantineDuration |-> 300000]

\* { ...defaults, ...overrides }
Merge(defaults, overrides) ==
    [k \in DOMAIN defaults \cup DOMAIN overrides |->
        IF k \in DOMAIN overrides THEN overrides[k] ELSE defaults[k]]

DefenseModes == {"high", "medium", "low", "off"}

\* StreamingServer.getDefenseConfig
getDefenseConfig(mode) ==
    LET baseConfig == [enableSecurityHeaders |-> TRUE, enableConnectionThrottling |-> TRUE,
                       blocklistEnabled |-> TRUE]
        validations(ackOn) ==
            [ackValidationEnabled |-> ackOn, rateLimitingEnabled |-> FALSE,
             sequenceTrackingEnabled |-> FALSE, adaptiveWindowEnabled |-> FALSE]
    IN  CASE mode = "high" ->
               Merge(Merge(baseConfig, validations(TRUE)),
                     [anomalyDetectionEnabled |-> TRUE, quarantineEnabled |-> TRUE,
                      maxACKsPerSecond |-> 1000, maxSequenceGap |-> 10485760,
                      suspiciousPatternThreshold |-> 95, quarantineDuration |-> 1800000,
                      maxConnectionsPerIP |-> 50])
          [] mode = "medium" ->
               Merge(Merge(baseConfig, validations(TRUE)),
                     [anomalyDetectionEnabled |-> TRUE, quarantineEnabled |-> TRUE,
                      maxACKsPerSecond |-> 1000, maxSequenceGap |-> 10485760,
                      suspiciousPatternThreshold |-> 90, quarantineDuration |-> 600000,
                      maxConnectionsPerIP |-> 100])
          [] mode = "low" ->
               Merge(Merge(baseConfig, validations(FALSE)),
                     [anomalyDetectionEnabled |-> TRUE, quarantineEnabled |-> FALSE,
                      maxACKsPerSecond |-> 10000, maxSequenceGap |-> 104857600,
                      suspiciousPatternThreshold |-> 99, quarantineDuration |-> 300000,
                      maxConnectionsPerIP |-> 200])
          [] OTHER ->
               Merge(Merge(baseConfig, validations(FALSE)),
                     [anomalyDetectionEnabled |-> FALSE, quarantineEnabled |-> FALSE,
                      maxACKsPerSecond |-> 100000, maxSequenceGap |-> 1048576000,
                      suspiciousPatternThreshold |-> 100, quarantineDuration |-> 0,
                      maxConnectionsPerIP |-> 1000])

\* new SecurityMiddleware(overrides): the middleware's defaults under the overrides
SecurityConfig(overrides) == Merge(SecurityDefaults, overrides)

\* StreamingServer.initializeDefenseSystem
ServerConfig(mode) == SecurityConfig(getDefenseConfig(mode))

\* A middleware built with the DefenseSystem's own defaults as overrides (every check on,
\* threshold 0.7), and one with a small rate limit and a short quarantine.
StrictConfig == SecurityConfig(DefenseDefaults)
TightConfig ==
    SecurityConfig(Merge(DefenseDefaults,
                         [maxACKsPerSecond |-> 1, quarantineDuration |-> 120000]))

ComponentConfigs ==
    {StrictConfig, TightConfig, ServerConfig("medium"), ServerConfig("low")}

----------------------------------------------------------------------------
(* Inputs *)

IPv4 == <<"10.0.0.1">>
IPv6Loopback == <<"", "", "1">>          \* "::1"
IPs == {IPv4, IPv6Loopback}
ACK == {"ACK"}

\* `${ip}:${port}`
connectionId(ip, port) == ip \o <<port>>

BenignPacket == [seq |-> 1, ack |-> 0, windowSize |-> 1000, flags |-> {}]

\* The packets offered to validateConnection, around the thresholds of the checks
Packets(cfg) ==
    LET G == cfg.maxSequenceGap
    IN  {BenignPacket,
         [seq |-> 1, ack |-> 0, windowSize |-> 1000, flags |-> ACK],
         [seq |-> 1, ack |-> 2 * G, windowSize |-> 1000, flags |-> ACK],
         [seq |-> 1, ack |-> 2 * G + 1, windowSize |-> 1000, flags |-> ACK],
         [seq |-> 1, ack |-> 4 * G + 1, windowSize |-> 1000, flags |-> ACK],
         [seq |-> MaxSeqDeviation + 2, ack |-> 0, windowSize |-> 1000, flags |-> {}],
         [seq |-> 1, ack |-> 0, windowSize |-> 3000, flags |-> {}]}

\* The packets offered to a quarantined client: one without flags, one optimistic ACK
QuarantinePackets(cfg) ==
    {BenignPacket,
     [seq |-> 1, ack |-> 2 * cfg.maxSequenceGap + 1, windowSize |-> 1000, flags |-> ACK]}

\* validateConnection's hard-coded attack signature
MockAttackSignature ==
    [rapidACKs |-> FALSE, abnormalWindowGrowth |-> FALSE,
     sequenceGaps |-> FALSE, suspiciousPattern |-> FALSE]

\* Signatures a caller of runDefenseChecks supplies: one indicator, and two
TwoIndicators == [MockAttackSignature EXCEPT !.rapidACKs = TRUE, !.sequenceGaps = TRUE]
SuppliedSignatures == {[MockAttackSignature EXCEPT !.sequenceGaps = TRUE], TwoIndicators}

----------------------------------------------------------------------------
(* Defense System *)

NoAction == [type |-> "none", reason |-> "", severity |-> "none",
             timestamp |-> 0, connectionId |-> <<>>]

\* DefenseSystem.createDefenseAction: the action it pushes, emits and returns
createDefenseAction(type, reason, severity, cid, t) ==
    [type |-> type, reason |-> reason, severity |-> severity,
     timestamp |-> t, connectionId |-> cid]

\* DefenseSystem.getOrCreateConnectionState: the state it creates
NewConnectionState(ip, port, t) ==
    [ip |-> ip, port |-> port, expectedSeq |-> 0, expectedAck |-> 0, lastValidAck |-> 0,
     windowSize |-> 0, ackCount |-> 0, lastACKTime |-> t, suspicious |-> FALSE,
     quarantined |-> FALSE, quarantineUntil |-> 0, anomalyScore |-> 0]

getOrCreateConnectionState(states, ip, port, t) ==
    IF connectionId(ip, port) \in DOMAIN states
    THEN states
    ELSE states @@ (connectionId(ip, port) :> NewConnectionState(ip, port, t))

\* updateAnomalyScore without its upper limit
updateAnomalyScoreUnbounded(state, increment) ==
    LET score == state.anomalyScore + increment
    IN  [state EXCEPT !.anomalyScore = score,
                      !.suspicious = IF score > 50 THEN TRUE ELSE @]

\* DefenseSystem.updateAnomalyScore
updateAnomalyScore(state, increment) ==
    LET score == Min(100, state.anomalyScore + increment)
    IN  [state EXCEPT !.anomalyScore = score,
                      !.suspicious = IF score > 50 THEN TRUE ELSE @]

\* DefenseSystem.updateConnectionState
updateConnectionState(state, seq, ack, windowSize) ==
    [state EXCEPT !.expectedSeq = seq, !.expectedAck = ack,
                  !.lastValidAck = Max(@, ack), !.windowSize = windowSize,
                  !.anomalyScore = Max(0, @ - 1)]

\* validateACKNumber with the advance compared by >= instead of >
validateACKNumberInclusive(cfg, state, ack) ==
    LET ackAdvance == ack - state.lastValidAck
        suspiciousAdvanceThreshold == cfg.maxSequenceGap * 2
    IN  IF ackAdvance >= suspiciousAdvanceThreshold
        THEN [valid |-> FALSE, reason |-> "Highly suspicious ACK detected"]
        ELSE IF ack < state.lastValidAck - AckRegressionTolerance
                /\ state.lastValidAck > AckRegressionTolerance
             THEN [valid |-> FALSE, reason |-> "Significant ACK regression detected"]
             ELSE [valid |-> TRUE, reason |-> ""]

\* DefenseSystem.validateACKNumber
validateACKNumber(cfg, state, ack) ==
    LET ackAdvance == ack - state.lastValidAck
        suspiciousAdvanceThreshold == cfg.maxSequenceGap * 2
    IN  IF ackAdvance > suspiciousAdvanceThreshold
        THEN [valid |-> FALSE, reason |-> "Highly suspicious ACK detected"]
        ELSE IF ack < state.lastValidAck - AckRegressionTolerance
                /\ state.lastValidAck > AckRegressionTolerance
             THEN [valid |-> FALSE, reason |-> "Significant ACK regression detected"]
             ELSE [valid |-> TRUE, reason |-> ""]

\* checkACKRateLimit restarting its second at every ACK
checkACKRateLimitSinceLastACK(cfg, state, t) ==
    LET reset == IF t - state.lastACKTime > 1000
                 THEN [state EXCEPT !.ackCount = 0, !.lastACKTime = t]
                 ELSE [state EXCEPT !.lastACKTime = t]
        counted == [reset EXCEPT !.ackCount = @ + 1]
        effectiveLimit == cfg.maxACKsPerSecond * 3
    IN  IF counted.ackCount > effectiveLimit
        THEN [allowed |-> FALSE, reason |-> "Extreme ACK rate limit exceeded",
              state |-> counted]
        ELSE [allowed |-> TRUE, reason |-> "", state |-> counted]

\* DefenseSystem.checkACKRateLimit: it also moves the connection's counter
checkACKRateLimit(cfg, state, t) ==
    LET reset == IF t - state.lastACKTime > 1000
                 THEN [state EXCEPT !.ackCount = 0, !.lastACKTime = t]
                 ELSE state
        counted == [reset EXCEPT !.ackCount = @ + 1]
        effectiveLimit == cfg.maxACKsPerSecond * 3
    IN  IF counted.ackCount > effectiveLimit
        THEN [allowed |-> FALSE, reason |-> "Extreme ACK rate limit exceeded",
              state |-> counted]
        ELSE [allowed |-> TRUE, reason |-> "", state |-> counted]

\* DefenseSystem.validateSequenceNumber
validateSequenceNumber(state, seq) ==
    IF state.expectedSeq > 0 /\ Abs(seq - state.expectedSeq) > MaxSeqDeviation
    THEN [valid |-> FALSE, reason |-> "Sequence number deviation too large"]
    ELSE [valid |-> TRUE, reason |-> ""]

\* DefenseSystem.validateWindowSize: windowSize / state.windowSize > maxWindowGrowthRate
validateWindowSize(cfg, state, windowSize) ==
    IF state.windowSize > 0 /\ windowSize * 10 > cfg.maxWindowGrowthRate * state.windowSize
    THEN [valid |-> FALSE, reason |-> "Abnormal window growth"]
    ELSE [valid |-> TRUE, reason |-> ""]

\* DefenseSystem.detectAnomalies
detectAnomalies(signature) ==
    LET anomalies == {k \in DOMAIN signature : signature[k]}
    IN  IF Cardinality(anomalies) >= 2
        THEN [anomalous |-> TRUE, reason |-> "Multiple attack indicators"]
        ELSE [anomalous |-> FALSE, reason |-> ""]

\* The verdict of runDefenseChecks: the connection's state as the checks leave it,
\* the actions created on the way (each is emitted), and whether quarantineIP was called.
Verdict(allowed, action, state, emitted, quarantine) ==
    [allowed |-> allowed, action |-> action, state |-> state,
     emitted |-> emitted, quarantine |-> quarantine]

\* runDefenseChecks, step 5: anomaly detection
anomalyStep(cfg, state, signature, cid, t, emitted) ==
    IF cfg.anomalyDetectionEnabled /\ detectAnomalies(signature).anomalous
    THEN LET scored == updateAnomalyScore(state, 40)
             reason == detectAnomalies(signature).reason
         IN  IF scored.anomalyScore >= cfg.suspiciousPatternThreshold
             THEN LET a == createDefenseAction("quarantine", reason, "critical", cid, t)
                  IN  Verdict(FALSE, a, scored, Append(emitted, a), TRUE)
             ELSE LET a == createDefenseAction("block", reason, "high", cid, t)
                  IN  Verdict(FALSE, a, scored, Append(emitted, a), FALSE)
    ELSE Verdict(TRUE, NoAction, state, emitted, FALSE)

\* runDefenseChecks, step 4: window size validation (alerts, never blocks)
windowStep(cfg, state, windowSize, signature, cid, t) ==
    IF cfg.adaptiveWindowEnabled /\ ~validateWindowSize(cfg, state, windowSize).valid
    THEN LET a == createDefenseAction("alert", validateWindowSize(cfg, state, windowSize).reason,
                                      "medium", cid, t)
         IN  anomalyStep(cfg, updateAnomalyScore(state, 20), signature, cid, t, <<a>>)
    ELSE anomalyStep(cfg, state, signature, cid, t, <<>>)

\* runDefenseChecks, step 3: sequence tracking
sequenceStep(cfg, state, seq, windowSize, signature, cid, t) ==
    IF cfg.sequenceTrackingEnabled /\ ~validateSequenceNumber(state, seq).valid
    THEN LET a == createDefenseAction("reject_packet", validateSequenceNumber(state, seq).reason,
                                      "medium", cid, t)
         IN  Verdict(FALSE, a, updateAnomalyScore(state, 25), <<a>>, FALSE)
    ELSE windowStep(cfg, state, windowSize, signature, cid, t)

\* runDefenseChecks, step 2: rate limiting
rateLimitStep(cfg, state, seq, windowSize, flags, signature, cid, t) ==
    IF cfg.rateLimitingEnabled /\ "ACK" \in flags
    THEN LET check == checkACKRateLimit(cfg, state, t)
         IN  IF ~check.allowed
             THEN LET a == createDefenseAction("rate_limit", check.reason, "medium", cid, t)
                  IN  Verdict(FALSE, a, updateAnomalyScore(check.state, 20), <<a>>, FALSE)
             ELSE sequenceStep(cfg, check.state, seq, windowSize, signature, cid, t)
    ELSE sequenceStep(cfg, state, seq, windowSize, signature, cid, t)

\* DefenseSystem.runDefenseChecks
runDefenseChecks(cfg, state, seq, ack, windowSize, flags, signature, t) ==
    LET cid == connectionId(state.ip, state.port)
        isLikelyAttack == state.suspicious \/ state.anomalyScore > 50
    IN  IF cfg.ackValidationEnabled /\ "ACK" \in flags /\ isLikelyAttack
           /\ ~validateACKNumber(cfg, state, ack).valid
        THEN LET a == createDefenseAction("reject_packet",
                                          validateACKNumber(cfg, state, ack).reason,
                                          "high", cid, t)
             IN  Verdict(FALSE, a, updateAnomalyScore(state, 30), <<a>>, FALSE)
        ELSE rateLimitStep(cfg, state, seq, windowSize, flags, signature, cid, t)

\* isQuarantined never finding the IP in the set
isQuarantinedNever(ip) == ip \in {}

\* DefenseSystem.isQuarantined
isQuarantined(ip) == ip \in quarantinedIPs

\* DefenseSystem.quarantineIP: the connection states as it marks them
quarantineStates(cfg, states, ip, t) ==
    IF ~cfg.quarantineEnabled
    THEN states
    ELSE [c \in DOMAIN states |->
            IF states[c].ip = ip
            THEN [states[c] EXCEPT !.quarantined = TRUE,
                                   !.quarantineUntil = t + cfg.quarantineDuration]
            ELSE states[c]]

\* DefenseSystem.removeFromQuarantine: the connection states as it resets them
releaseStates(states, ips) ==
    [c \in DOMAIN states |->
        IF states[c].ip \in ips
        THEN [states[c] EXCEPT !.quarantined = FALSE, !.quarantineUntil = 0,
                               !.anomalyScore = 0]
        ELSE states[c]]

----------------------------------------------------------------------------
(* Security Middleware: reaction to the Defense System's events *)

\* action.connectionId.split(':')[0]
actionIP(action) == <<Head(action.connectionId)>>

\* The handler promoting every action of severity high or critical
promotedIPsAnySevere(emitted) ==
    {actionIP(emitted[i]) : i \in {j \in DOMAIN emitted :
        emitted[j].severity \in {"high", "critical"}}}

\* SecurityMiddleware.setupDefenseEventHandlers: the IPs the handler passes to
\* addToBlocklist for the actions emitted during one call
promotedIPs(emitted) ==
    {actionIP(emitted[i]) : i \in {j \in DOMAIN emitted :
        emitted[j].type = "quarantine" /\ emitted[j].severity = "critical"}}

\* SecurityMiddleware.addToBlocklist, for each promoted IP
AddToBlocklist(emitted) ==
    /\ blocklist' = blocklist \cup promotedIPs(emitted)
    /\ blocklistTimers' = blocklistTimers \cup
            {[ip |-> ip, at |-> now + BlocklistMs] : ip \in promotedIPs(emitted)}

----------------------------------------------------------------------------
(* Defense System: operations *)

NoPacket == [seq |-> 0, ack |-> 0, windowSize |-> 0, flags |-> {}]

\* The IPs among `ips` that leave the quarantine set now, each with its time of entry
releases(ips, how) ==
    {[ip |-> ip, at |-> now, entered |-> enteredAt[ip], how |-> how] :
        ip \in ips \cap quarantinedIPs}

Call(op, ip, port, packet, signature, before, allowed, action, emitted, quarantine) ==
    [op |-> op, ip |-> ip, port |-> port, packet |-> packet, signature |-> signature,
     likely |-> before.suspicious \/ before.anomalyScore > 50,
     ackAdvance |-> packet.ack - before.lastValidAck,
     scoreBefore |-> before.anomalyScore,
     wasQuarantined |-> ip \in quarantinedIPs,
     allowed |-> allowed, action |-> action, emitted |-> emitted,
     quarantine |-> quarantine]

\* One more call to the Defense System
Counted == calls < MaxCalls /\ calls' = calls + 1

\* DefenseSystem.validateConnection, with the attack signature as a parameter
Validate(op, ip, port, packet, signature) ==
    LET cid == connectionId(ip, port)
    IN  IF isQuarantined(ip)
        THEN LET a == createDefenseAction("block", "IP is quarantined", "high", cid, now)
             IN  /\ lastCall' = Call(op, ip, port, packet, signature,
                                     NewConnectionState(ip, port, now), FALSE, a, <<a>>, FALSE)
                 /\ AddToBlocklist(<<a>>)
                 /\ UNCHANGED <<connectionStates, quarantinedIPs, quarantineTimers,
                                enteredAt, lastRelease>>
        ELSE LET created == getOrCreateConnectionState(connectionStates, ip, port, now)
                 v == runDefenseChecks(config, created[cid], packet.seq, packet.ack,
                                       packet.windowSize, packet.flags, signature, now)
                 final == IF v.allowed
                          THEN updateConnectionState(v.state, packet.seq, packet.ack,
                                                     packet.windowSize)
                          ELSE v.state
                 stored == [created EXCEPT ![cid] = final]
                 entered == v.quarantine /\ config.quarantineEnabled
             IN  /\ connectionStates' = IF v.quarantine
                                        THEN quarantineStates(config, stored, ip, now)
                                        ELSE stored
                 /\ quarantinedIPs' = IF entered THEN quarantinedIPs \cup {ip}
                                      ELSE quarantinedIPs
                 /\ quarantineTimers' =
                        IF entered
                        THEN quarantineTimers \cup
                                {[ip |-> ip, at |-> now + config.quarantineDuration]}
                        ELSE quarantineTimers
                 /\ enteredAt' = IF entered THEN [enteredAt EXCEPT ![ip] = now]
                                 ELSE enteredAt
                 /\ lastCall' = Call(op, ip, port, packet, signature, created[cid],
                                     v.allowed, v.action, v.emitted, v.quarantine)
                 /\ AddToBlocklist(v.emitted)
                 /\ UNCHANGED lastRelease

\* validateConnection(ip, port, seq, ack, windowSize, flags)
validateConnection(ip, port, packet) ==
    /\ Validate("validateConnection", ip, port, packet, MockAttackSignature)
    /\ Counted
    /\ UNCHANGED <<toolVars, config, now, nextCleanup, connectionCounts, response, attacker>>

\* The same path with the signature supplied by the caller of runDefenseChecks
validateWithSignature(ip, port, packet, signature) ==
    /\ Validate("runDefenseChecks", ip, port, packet, signature)
    /\ Counted
    /\ UNCHANGED <<toolVars, config, now, nextCleanup, connectionCounts, response, attacker>>

\* DefenseSystem.markConnectionSuspicious: the connection states as it leaves them
markedStates(states, ip, port, t) ==
    LET created == getOrCreateConnectionState(states, ip, port, t)
        cid == connectionId(ip, port)
    IN  [created EXCEPT ![cid] = [@ EXCEPT !.suspicious = TRUE,
                                           !.anomalyScore = Min(100, @ + 50)]]

\* DefenseSystem.markConnectionSuspicious: its alert, created (and so emitted) once and
\* emitted once more by the caller
markedActions(ip, port, t) ==
    LET a == createDefenseAction("alert", "Connection marked suspicious", "medium",
                                 connectionId(ip, port), t)
    IN  <<a, a>>

markConnectionSuspicious(ip, port) ==
    /\ Counted
    /\ connectionStates' = markedStates(connectionStates, ip, port, now)
    /\ lastCall' = Call("markConnectionSuspicious", ip, port, NoPacket, MockAttackSignature,
                        getOrCreateConnectionState(connectionStates, ip, port, now)
                            [connectionId(ip, port)],
                        TRUE, markedActions(ip, port, now)[1], markedActions(ip, port, now),
                        FALSE)
    /\ AddToBlocklist(markedActions(ip, port, now))
    /\ UNCHANGED <<toolVars, config, now, nextCleanup, quarantinedIPs, quarantineTimers, enteredAt,
                   lastRelease, connectionCounts, response, attacker>>

\* DefenseSystem.removeFromQuarantine
removeFromQuarantine(ips, how) ==
    /\ quarantinedIPs' = quarantinedIPs \ ips
    /\ connectionStates' = releaseStates(connectionStates, ips)
    /\ lastRelease' = IF releases(ips, how) = {} THEN lastRelease ELSE releases(ips, how)

\* DefenseSystem.forceRemoveFromQuarantine
forceRemoveFromQuarantine(ip) ==
    /\ isQuarantined(ip)
    /\ removeFromQuarantine({ip}, "force")
    /\ lastCall' = Call("forceRemoveFromQuarantine", ip, "0", NoPacket, MockAttackSignature,
                        NewConnectionState(ip, "0", now), TRUE, NoAction, <<>>, FALSE)
    /\ UNCHANGED <<toolVars, config, now, nextCleanup, quarantineTimers, enteredAt, blocklist,
                   blocklistTimers, connectionCounts, response, attacker, calls>>

\* The setTimeout callback of quarantineIP
quarantineTimeout(timer) ==
    /\ timer \in quarantineTimers
    /\ timer.at <= now
    /\ quarantineTimers' = quarantineTimers \ {timer}
    /\ removeFromQuarantine({timer.ip}, "timer")
    /\ UNCHANGED <<toolVars, config, now, nextCleanup, lastCall, enteredAt, blocklist,
                   blocklistTimers, connectionCounts, response, attacker, calls>>

\* DefenseSystem.cleanupExpiredStates, run by the interval of startDefenseMonitoring
cleanupExpiredStates ==
    LET expiredConnections ==
            {c \in DOMAIN connectionStates : now - connectionStates[c].lastACKTime > InactiveMs}
        expiredQuarantines ==
            {connectionStates[c].ip : c \in {d \in DOMAIN connectionStates :
                connectionStates[d].quarantined /\ now > connectionStates[d].quarantineUntil}}
        released == releaseStates(connectionStates, expiredQuarantines)
    IN  /\ now >= nextCleanup
        /\ nextCleanup' = nextCleanup + CleanupIntervalMs
        /\ quarantinedIPs' = quarantinedIPs \ expiredQuarantines
        /\ connectionStates' = [c \in DOMAIN released \ expiredConnections |-> released[c]]
        /\ lastRelease' = IF releases(expiredQuarantines, "cleanup") = {} THEN lastRelease
                           ELSE releases(expiredQuarantines, "cleanup")
        /\ UNCHANGED <<toolVars, config, now, quarantineTimers, lastCall, enteredAt, blocklist,
                       blocklistTimers, connectionCounts, response, attacker, calls>>

\* The clock: it advances to the next multiple of the cleanup period, never past a timer
\* that is due
Deadlines == {nextCleanup} \cup {t.at : t \in quarantineTimers}

Tick ==
    /\ now < MaxTicks * CleanupIntervalMs
    /\ \A d \in Deadlines : d > now
    /\ now' = CHOOSE d \in Deadlines : \A e \in Deadlines : d <= e
    /\ UNCHANGED <<toolVars, config, nextCleanup, defenseVars, blocklist, blocklistTimers,
                   connectionCounts, response, attacker>>

\* validateConnection, noting when the connection was seen
observedValidateConnection(ip, port, packet) ==
    /\ Validate("validateConnection", ip, port, packet, MockAttackSignature)
    /\ Counted
    /\ observed' = [c \in DOMAIN observed \cup {connectionId(ip, port)} |->
                        IF c = connectionId(ip, port) THEN now ELSE observed[c]]
    /\ UNCHANGED <<download, construction, rawSocket, app, stream, fileResponse, results,
                   run, traffic, connectionAnalyzer, panel, cli, ackLog, config, now, nextCleanup,
                   connectionCounts, response, attacker>>

\* validateConnection, noting the creation of the connection state and the ACKs
loggedValidateConnection(ip, port, packet) ==
    LET c == connectionId(ip, port)
        entry == IF c \in DOMAIN ackLog THEN ackLog[c] ELSE [created |-> now, acks |-> <<>>]
    IN  /\ Validate("validateConnection", ip, port, packet, MockAttackSignature)
        /\ Counted
        /\ ackLog' = [d \in DOMAIN ackLog \cup {c} |->
                        IF d # c THEN ackLog[d]
                        ELSE IF "ACK" \in packet.flags
                             THEN [entry EXCEPT !.acks = Append(@, now)]
                             ELSE entry]
        /\ UNCHANGED <<download, construction, rawSocket, app, stream, fileResponse,
                       results, run, traffic, connectionAnalyzer, panel, cli, observed, config, now,
                       nextCleanup, connectionCounts, response, attacker>>

\* Some milliseconds pass, less than the cleanup period
millisecondsPass(ms) ==
    /\ now + ms <= MaxRateMs
    /\ now + ms < nextCleanup
    /\ now' = now + ms
    /\ UNCHANGED <<toolVars, config, nextCleanup, defenseVars, blocklist, blocklistTimers,
                   connectionCounts, response, attacker>>

\* One cleanup period passes, over as many periods as the inactivity limit needs
cleanupPeriodPasses ==
    /\ now < MaxCleanups * CleanupIntervalMs
    /\ \A d \in Deadlines : d > now
    /\ now' = CHOOSE d \in Deadlines : \A e \in Deadlines : d <= e
    /\ UNCHANGED <<toolVars, config, nextCleanup, defenseVars, blocklist, blocklistTimers,
                   connectionCounts, response, attacker>>

\* The setTimeout callback of addToBlocklist
blocklistTimeout(timer) ==
    /\ timer \in blocklistTimers
    /\ timer.at <= now
    /\ blocklist' = blocklist \ {timer.ip}
    /\ blocklistTimers' = blocklistTimers \ {timer}
    /\ UNCHANGED <<toolVars, config, now, nextCleanup, defenseVars, connectionCounts,
                   response, attacker>>

\* Up to ten minutes pass, never past a quarantine or blocklist timer that is due
TimerDeadlines == {t.at : t \in quarantineTimers \cup blocklistTimers}

timePasses ==
    /\ now < MaxBlocklistMs
    /\ \A d \in TimerDeadlines : d > now
    /\ now' = CHOOSE d \in TimerDeadlines \cup {now + InactiveMs} :
                    \A e \in TimerDeadlines \cup {now + InactiveMs} : d <= e
    /\ UNCHANGED <<toolVars, config, nextCleanup, defenseVars, blocklist, blocklistTimers,
                   connectionCounts, response, attacker>>

----------------------------------------------------------------------------
(* Security Middleware: requests *)

LegitimateAgents ==
    {"Mozilla/", "Chrome/", "Safari/", "Firefox/", "Edge/", "Opera/", "curl/", "wget/",
     "Node.js", "axios/", "okhttp/", "Python-urllib", "java/", "Go-http-client", "libcurl",
     "Postman", "Insomnia"}

MaliciousAgents ==
    {"OptimisticACK-Attack-Tool", "OptimisticACK-HLS-Client", "exploit-framework",
     "attack-simulator"}

SuspiciousHeaders == {"x-attack-type", "x-exploit", "x-malicious", "x-optimistic-ack"}

\* userAgent.includes(marker)
includes(userAgent, marker) == \E i \in DOMAIN userAgent : userAgent[i] = marker

\* SecurityMiddleware.isLegitimateClient
isLegitimateClient(userAgent) ==
    \/ \E legit \in LegitimateAgents : includes(userAgent, legit)
    \/ \A i \in DOMAIN userAgent : userAgent[i] = " "

\* A Range header after replace(/bytes=/, "").split("-"): each part is a number,
\* empty, or text that parseInt cannot read
Num(n) == [kind |-> "num", n |-> n]
EmptyPart == [kind |-> "empty", n |-> 0]
TextPart == [kind |-> "text", n |-> 0]
NoRange == <<>>
LargeRangeBytes == 104857600

\* SecurityMiddleware.isAbnormalRangeRequest (NaN compares false; 0, NaN and null are falsy)
isAbnormalRangeRequest(parts) ==
    LET startIsNum == Len(parts) >= 1 /\ parts[1].kind = "num"
        endTruthy == Len(parts) >= 2 /\ parts[2].kind = "num" /\ parts[2].n # 0
    IN  \/ endTruthy /\ startIsNum /\ parts[2].n - parts[1].n > LargeRangeBytes
        \/ startIsNum /\ parts[1].n < 0
        \/ endTruthy /\ startIsNum /\ parts[2].n < parts[1].n

\* SecurityMiddleware.isRapidFireRequest
isRapidFireRequest(ip) == FALSE

Digits == {"0", "1", "2", "3", "4", "5", "6", "7", "8", "9"}
IdChars == Digits \cup {"a", "z", "A", "Z", "-", "_"}

\* SecurityMiddleware.validateStreamingRequest: a stream id is its characters, a segment
\* name its pieces (a stem, digits, an extension); <<>> is a parameter the route lacks
validateStreamingRequest(req) ==
    LET segmentOk ==
            \/ req.segment = <<"playlist", ".m3u8">>
            \/ /\ Len(req.segment) >= 3
               /\ req.segment[1] = "segment"
               /\ req.segment[Len(req.segment)] = ".ts"
               /\ \A i \in 2..(Len(req.segment) - 1) : req.segment[i] \in Digits
    IN  IF req.streamId # <<>> /\ \E i \in DOMAIN req.streamId : req.streamId[i] \notin IdChars
        THEN [valid |-> FALSE, reason |-> "Invalid stream ID format"]
        ELSE IF req.segment # <<>> /\ ~segmentOk
             THEN [valid |-> FALSE, reason |-> "Invalid segment format"]
             ELSE [valid |-> TRUE, reason |-> ""]

\* detectExplicitAttack looking at the simulation header before the whitelist
detectExplicitAttackHeaderFirst(req) ==
    IF req.simulateAttack = "optimistic-ack"
    THEN [reason |-> "Explicit optimistic ACK attack simulation detected", marked |-> FALSE]
    ELSE IF isLegitimateClient(req.userAgent)
    THEN [reason |-> "", marked |-> FALSE]
    ELSE IF \E m \in MaliciousAgents : includes(req.userAgent, m)
    THEN [reason |-> "Malicious user agent detected", marked |-> TRUE]
    ELSE IF req.headers \cap SuspiciousHeaders # {}
    THEN [reason |-> "Suspicious header detected", marked |-> FALSE]
    ELSE IF req.range # NoRange /\ isAbnormalRangeRequest(req.range)
    THEN [reason |-> "Abnormal Range request pattern detected", marked |-> FALSE]
    ELSE [reason |-> "", marked |-> FALSE]

\* SecurityMiddleware.detectExplicitAttack: the reason it returns ("" for null) and
\* whether it marked the connection suspicious in the Defense System
detectExplicitAttack(req) ==
    IF isLegitimateClient(req.userAgent)
    THEN [reason |-> "", marked |-> FALSE]
    ELSE IF req.simulateAttack = "optimistic-ack"
    THEN [reason |-> "Explicit optimistic ACK attack simulation detected", marked |-> FALSE]
    ELSE IF \E m \in MaliciousAgents : includes(req.userAgent, m)
    THEN [reason |-> "Malicious user agent detected", marked |-> TRUE]
    ELSE IF req.headers \cap SuspiciousHeaders # {}
    THEN [reason |-> "Suspicious header detected", marked |-> FALSE]
    ELSE IF isRapidFireRequest(req.ip)
    THEN [reason |-> "Rapid-fire request pattern detected", marked |-> FALSE]
    ELSE IF req.range # NoRange /\ isAbnormalRangeRequest(req.range)
    THEN [reason |-> "Abnormal Range request pattern detected", marked |-> FALSE]
    ELSE [reason |-> "", marked |-> FALSE]

\* SecurityMiddleware.isBlocked
isBlocked(ip) == ip \in blocklist

IsLocalhost(ip) == ip = IPv6Loopback \/ ip = <<"127.0.0.1">> \/ ip = <<"localhost">>

\* SecurityMiddleware.checkConnectionLimit: whether the connection is allowed
\* (it is counted when it is)
checkConnectionLimit(cfg, counts, ip) ==
    IF IsLocalhost(ip)
    THEN counts[ip] < cfg.maxConnectionsPerIP * 10
    ELSE counts[ip] < cfg.maxConnectionsPerIP

\* What a middleware entry point did with a request: the status it answered (0 when it
\* called next()), the checks it evaluated in order, and its side effects
Outcome(status, trace, counted, marked) ==
    [status |-> status, trace |-> trace, counted |-> counted, marked |-> marked]

\* SecurityMiddleware.createRequestFilter
requestFilter(cfg, counts, req) ==
    LET headers == IF cfg.enableSecurityHeaders THEN <<"headers">> ELSE <<>>
    IN  IF cfg.blocklistEnabled /\ isBlocked(req.ip)
        THEN Outcome(403, headers \o <<"blocklist">>, FALSE, FALSE)
        ELSE IF cfg.enableConnectionThrottling
        THEN IF ~isLegitimateClient(req.userAgent)
             THEN IF ~checkConnectionLimit(cfg, counts, req.ip)
                  THEN Outcome(429, headers \o <<"blocklist", "whitelist", "throttling">>,
                               FALSE, FALSE)
                  ELSE Outcome(0, headers \o <<"blocklist", "whitelist", "throttling">>,
                               TRUE, FALSE)
             ELSE Outcome(0, headers \o <<"blocklist", "whitelist">>, FALSE, FALSE)
        ELSE Outcome(0, headers \o <<"blocklist">>, FALSE, FALSE)

\* SecurityMiddleware.createDownloadProtection
downloadProtection(cfg, req) ==
    IF cfg.blocklistEnabled /\ isBlocked(req.ip)
    THEN Outcome(403, <<"blocklist">>, FALSE, FALSE)
    ELSE IF detectExplicitAttack(req).reason # ""
    THEN Outcome(403, <<"blocklist", "attack">>, FALSE, detectExplicitAttack(req).marked)
    ELSE Outcome(0, <<"blocklist", "attack">>, FALSE, FALSE)

\* createStreamProtection validating the stream parameters before the blocklist
streamProtectionValidatesFirst(cfg, req) ==
    IF ~validateStreamingRequest(req).valid
    THEN Outcome(400, <<"stream">>, FALSE, FALSE)
    ELSE IF cfg.blocklistEnabled /\ isBlocked(req.ip)
    THEN Outcome(403, <<"stream", "blocklist">>, FALSE, FALSE)
    ELSE IF detectExplicitAttack(req).reason # ""
    THEN Outcome(403, <<"stream", "blocklist", "attack">>, FALSE,
                 detectExplicitAttack(req).marked)
    ELSE Outcome(0, <<"stream", "blocklist", "attack">>, FALSE, FALSE)

\* SecurityMiddleware.createStreamProtection
streamProtection(cfg, req) ==
    IF cfg.blocklistEnabled /\ isBlocked(req.ip)
    THEN Outcome(403, <<"blocklist">>, FALSE, FALSE)
    ELSE IF ~validateStreamingRequest(req).valid
    THEN Outcome(400, <<"blocklist", "stream">>, FALSE, FALSE)
    ELSE IF detectExplicitAttack(req).reason # ""
    THEN Outcome(403, <<"blocklist", "stream", "attack">>, FALSE,
                 detectExplicitAttack(req).marked)
    ELSE Outcome(0, <<"blocklist", "stream", "attack">>, FALSE, FALSE)

----------------------------------------------------------------------------
(* Security Middleware and Streaming Server: operations *)

UserAgents ==
    {<<>>, <<" ">>, <<"Mozilla/">>, <<"curl/">>, <<"MyPlayer">>,
     <<"OptimisticACK-Attack-Tool">>, <<"Mozilla/", "OptimisticACK-Attack-Tool">>}

Ranges == {NoRange, <<Num(100), EmptyPart>>, <<Num(200), Num(100)>>}
StreamIds == {<<"a", "-", "1">>, <<"a", "%">>}
Segments == {<<"segment", "0", "1", ".ts">>, <<"segment", ".mp4">>}

Request(ip, userAgent, simulateAttack, headers, range, streamId, segment) ==
    [ip |-> ip, userAgent |-> userAgent, simulateAttack |-> simulateAttack,
     headers |-> headers, range |-> range, streamId |-> streamId, segment |-> segment]

\* Requests to a download route, and to the two stream routes
DownloadRequests ==
    {Request(IPv4, ua, sim, h, r, <<>>, <<>>) :
        ua \in UserAgents, sim \in {"", "optimistic-ack"},
        h \in {{}, {"x-attack-type"}}, r \in Ranges}

StreamRequests ==
    {Request(IPv4, ua, sim, {}, NoRange, id, seg) :
        ua \in UserAgents, sim \in {"", "optimistic-ack"},
        id \in StreamIds, seg \in Segments \cup {<<>>}}

\* Requests to any route, as the global filter sees them
FilterRequests ==
    {Request(IPv4, ua, "", {}, NoRange, <<>>, <<>>) : ua \in UserAgents}

\* The requests offered to the running server: one remote client
ServerAgents == {<<"curl/">>, <<"MyPlayer">>, <<"OptimisticACK-Attack-Tool">>}
ServerRequests ==
    {Request(IPv4, ua, sim, {}, NoRange, <<>>, <<>>) :
        ua \in ServerAgents, sim \in {"", "optimistic-ack"}}

Routes == {"download", "playlist", "segment", "status"}

NoRequest == Request(<<>>, <<>>, "", {}, NoRange, <<>>, <<>>)

Response(entry, req, status, trace, handled) ==
    [entry |-> entry, req |-> req, wasBlocked |-> req.ip \in blocklist, status |-> status,
     trace |-> trace, handled |-> handled]

\* parseInt(req.headers['x-forwarded-port']) || 0: the requests carry no such header
clientPort == "0"

\* The side effects of one middleware entry point: the connection it counted and the
\* connection detectExplicitAttack marked suspicious
Effects(req, counted, marked) ==
    /\ connectionCounts' = IF counted
                           THEN [connectionCounts EXCEPT ![req.ip] = @ + 1]
                           ELSE connectionCounts
    /\ counted => connectionCounts[req.ip] < MaxConn
    /\ marked => calls < MaxCalls
    /\ calls' = IF marked THEN calls + 1 ELSE calls
    /\ connectionStates' = IF marked
                           THEN markedStates(connectionStates, req.ip, clientPort, now)
                           ELSE connectionStates
    /\ lastCall' = IF marked
                   THEN Call("markConnectionSuspicious", req.ip, clientPort, NoPacket,
                             MockAttackSignature,
                             getOrCreateConnectionState(connectionStates, req.ip, clientPort,
                                                        now)[connectionId(req.ip, clientPort)],
                             TRUE, markedActions(req.ip, clientPort, now)[1],
                             markedActions(req.ip, clientPort, now), FALSE)
                   ELSE lastCall
    /\ AddToBlocklist(IF marked THEN markedActions(req.ip, clientPort, now) ELSE <<>>)
    /\ UNCHANGED <<toolVars, config, now, nextCleanup, quarantinedIPs, quarantineTimers, enteredAt,
                   lastRelease, attacker>>

\* The handler returned by createRequestFilter, called with one request
createRequestFilter(req) ==
    LET o == requestFilter(config, connectionCounts, req)
    IN  /\ response' = Response("filter", req, o.status, o.trace, FALSE)
        /\ Effects(req, o.counted, o.marked)

\* The handler returned by createDownloadProtection, called with one request
createDownloadProtection(req) ==
    LET o == downloadProtection(config, req)
    IN  /\ response' = Response("download", req, o.status, o.trace, FALSE)
        /\ Effects(req, o.counted, o.marked)

\* The handler returned by createStreamProtection, called with one request
createStreamProtection(req) ==
    LET o == streamProtection(config, req)
    IN  /\ response' = Response("stream", req, o.status, o.trace, FALSE)
        /\ Effects(req, o.counted, o.marked)

\* The request as the route's parameters complete it
routed(route, req) ==
    CASE route = "playlist" -> [req EXCEPT !.streamId = <<"a", "-", "1">>]
      [] route = "segment" -> [req EXCEPT !.streamId = <<"a", "-", "1">>,
                                          !.segment = <<"segment", "0", "1", ".ts">>]
      [] OTHER -> req

\* StreamingServer.setupSecurity / setupRoutes with defense enabled: the global request
\* filter, then the route's protection, then the route's handler (status 200 stands for
\* whatever the handler answers)
serve(cfg, counts, route, req) ==
    LET f == requestFilter(cfg, counts, req)
        p == CASE route = "download" -> downloadProtection(cfg, req)
               [] route \in {"playlist", "segment"} -> streamProtection(cfg, routed(route, req))
               [] OTHER -> Outcome(0, <<>>, FALSE, FALSE)
    IN  IF f.status # 0
        THEN [status |-> f.status, trace |-> f.trace, counted |-> f.counted,
              marked |-> FALSE, handled |-> FALSE]
        ELSE [status |-> IF p.status # 0 THEN p.status ELSE 200, trace |-> f.trace \o p.trace,
              counted |-> f.counted, marked |-> p.marked, handled |-> p.status = 0]

serverRequest(route, req) ==
    LET o == serve(config, connectionCounts, route, req)
    IN  /\ response' = Response(route, req, o.status, o.trace, o.handled)
        /\ Effects(req, o.counted, o.marked)

\* The setTimeout callback of checkConnectionLimit, 2 s after a connection was counted
connectionWindowExpires(ip) ==
    /\ connectionCounts[ip] > 0
    /\ connectionCounts' = [connectionCounts EXCEPT ![ip] = @ - 1]
    /\ UNCHANGED <<toolVars, config, now, nextCleanup, defenseVars, blocklist, blocklistTimers,
                   response, attacker>>

----------------------------------------------------------------------------
(* Attack Orchestrator: the optimistic-ACK loop *)

InitialSequenceNumbers == {0, 999999}

AttackConfigs ==
    [ackAdvanceSize : {8760, 40000}, windowScale : {1, 2},
     enableTransfer : BOOLEAN, transferType : {"download", "streaming"}]

InitialAttacker(cfg) ==
    [config |-> cfg, phase |-> "idle", isAttackActive |-> FALSE, ready |-> FALSE,
     sequenceNumber |-> 0, ackNumber |-> 0, transferActive |-> FALSE,
     sent |-> <<>>, inFlight |-> 0, packetsPressed |-> 0, successfulAcks |-> 0]

\* executeAttack up to the start of the loop: the manager is initialized, the connection
\* established (establishConnection), then the loop and the transfer are started
establishConnection(isn) ==
    /\ attacker.phase = "idle"
    /\ attacker' = [attacker EXCEPT !.phase = "attacking", !.isAttackActive = TRUE,
                                    !.ready = TRUE, !.sequenceNumber = isn,
                                    !.ackNumber = 1,
                                    !.transferActive = attacker.config.enableTransfer]
    /\ UNCHANGED <<toolVars, config, now, nextCleanup, defenseVars, blocklist, blocklistTimers,
                   connectionCounts, response>>

\* sendOptimisticACK applying the streaming advance whatever the transfer
sendOptimisticACKAlwaysStreaming(a) ==
    LET ackNumber == a.ackNumber + Max(a.config.ackAdvanceSize, StreamingMinAdvance)
    IN  IF ~a.ready
        THEN a
        ELSE [a EXCEPT !.ackNumber = ackNumber,
                       !.sent = Append(@, [sequenceNumber |-> a.sequenceNumber,
                                           ackNumber |-> ackNumber,
                                           windowSize |-> 65535]),
                       !.inFlight = @ + 1]

\* OptimisticACKAttacker.sendOptimisticACK up to the send: the attacker as the tick
\* leaves it, with the packet crafted
sendOptimisticACK(a) ==
    LET streaming == a.config.transferType = "streaming" /\ a.transferActive
        ackAdvancement == IF streaming
                          THEN Max(a.config.ackAdvanceSize, StreamingMinAdvance)
                          ELSE a.config.ackAdvanceSize
        ackNumber == a.ackNumber + ackAdvancement
        scaled == IF a.config.windowScale > 1
                  THEN Min(65535, 32768 * a.config.windowScale) ELSE 32768
        windowSize == IF a.transferActive
                      THEN IF a.config.transferType = "streaming" THEN 65535
                           ELSE Min(65535, (scaled * 3) \div 2)
                      ELSE scaled
    IN  IF ~a.ready
        THEN a
        ELSE [a EXCEPT !.ackNumber = ackNumber,
                       !.sent = Append(@, [sequenceNumber |-> a.sequenceNumber,
                                           ackNumber |-> ackNumber,
                                           windowSize |-> windowSize]),
                       !.inFlight = @ + 1]

\* One firing of the setInterval callback of startOptimisticACKLoop
attackTick ==
    /\ attacker.phase = "attacking"
    /\ Len(attacker.sent) < MaxPackets
    /\ attacker' = IF ~attacker.isAttackActive
                   THEN [attacker EXCEPT !.phase = "done"]
                   ELSE sendOptimisticACK(attacker)
    /\ UNCHANGED <<toolVars, config, now, nextCleanup, defenseVars, blocklist, blocklistTimers,
                   connectionCounts, response>>

\* A resolved send counted as pressed but not as a successful ACK
sendCompletesPressedOnly ==
    /\ attacker.inFlight > 0
    /\ attacker' = [attacker EXCEPT !.inFlight = @ - 1, !.packetsPressed = @ + 1]
    /\ UNCHANGED <<toolVars, config, now, nextCleanup, defenseVars, blocklist, blocklistTimers,
                   connectionCounts, response>>

\* rawSocket.sendPacket resolves: the packet is counted
sendCompletes ==
    /\ attacker.inFlight > 0
    /\ attacker' = [attacker EXCEPT !.inFlight = @ - 1, !.packetsPressed = @ + 1,
                                    !.successfulAcks = @ + 1]
    /\ UNCHANGED <<toolVars, config, now, nextCleanup, defenseVars, blocklist, blocklistTimers,
                   connectionCounts, response>>

\* startConcurrentTransfer finishes (or fails)
transferCompletes ==
    /\ attacker.transferActive
    /\ attacker' = [attacker EXCEPT !.transferActive = FALSE]
    /\ UNCHANGED <<toolVars, config, now, nextCleanup, defenseVars, blocklist, blocklistTimers,
                   connectionCounts, response>>

\* The duration timer of startOptimisticACKLoop
durationElapsed ==
    /\ attacker.phase = "attacking"
    /\ attacker' = [attacker EXCEPT !.isAttackActive = FALSE, !.phase = "done"]
    /\ UNCHANGED <<toolVars, config, now, nextCleanup, defenseVars, blocklist, blocklistTimers,
                   connectionCounts, response>>

\* OptimisticACKAttacker.stopAttack
stopAttack ==
    /\ attacker.phase = "attacking"
    /\ attacker.isAttackActive \/ attacker.ready
    /\ attacker' = [attacker EXCEPT !.isAttackActive = FALSE, !.ready = FALSE]
    /\ UNCHANGED <<toolVars, config, now, nextCleanup, defenseVars, blocklist, blocklistTimers,
                   connectionCounts, response>>

----------------------------------------------------------------------------
(* Chunked downloads: the orchestrator's and the dashboard panel's *)

DownloadClients == {"orchestrator", "panel"}
AdvanceSizes == {8760, 100000}

\* The sizes getFileSize reports: none, one byte, and around each multiple of 64 KB
FileSizes ==
    {0, 1} \cup UNION {{k * MinChunkSize - 1, k * MinChunkSize, k * MinChunkSize + 1} :
                          k \in 1..MaxChunks}

IdleDownload ==
    [phase |-> "idle", client |-> "none", fileSize |-> 0, chunkSize |-> 0,
     currentOffset |-> 0, i |-> 0, numChunks |-> 0, requests |-> <<>>]

\* Math.ceil(fileSize / chunkSize)
Ceil(fileSize, chunkSize) == (fileSize + chunkSize - 1) \div chunkSize

\* A chunk ending one byte further
chunkEndOneFurther(start, chunkSize, fileSize) == Min(start + chunkSize, fileSize - 1)

\* Math.min(start + chunkSize - 1, fileSize - 1)
chunkEnd(start, chunkSize, fileSize) == Min(start + chunkSize - 1, fileSize - 1)

\* performChunkedDownload is entered: the orchestrator's with chunks of
\* max(ackAdvanceSize, 65536), the panel's with its 64 KB chunks counted beforehand
startChunkedDownload(client, ackAdvanceSize, fileSize) ==
    LET chunkSize == IF client = "orchestrator" THEN Max(ackAdvanceSize, MinChunkSize)
                     ELSE PanelChunkSize
    IN  /\ download.phase = "idle"
        /\ download' = [IdleDownload EXCEPT
                !.phase = "running", !.client = client, !.fileSize = fileSize,
                !.chunkSize = chunkSize,
                !.numChunks = IF client = "panel" THEN Ceil(fileSize, chunkSize) ELSE 0]
        /\ UNCHANGED except_download

\* The loop condition: while (currentOffset < totalSize), for (i < numChunks)
hasNextChunk(d) ==
    IF d.client = "orchestrator" THEN d.currentOffset < d.fileSize ELSE d.i < d.numChunks

\* The Range request of the next turn of the loop: bytes=start-end
nextRange(d) ==
    LET start == IF d.client = "orchestrator" THEN d.currentOffset ELSE d.i * d.chunkSize
    IN  [start |-> start, end |-> chunkEnd(start, d.chunkSize, d.fileSize)]

\* One turn of the loop whose downloadChunk resolves
downloadChunk ==
    /\ download.phase = "running"
    /\ hasNextChunk(download)
    /\ download' = [download EXCEPT !.requests = Append(@, nextRange(download)),
                                    !.currentOffset = nextRange(download).end + 1,
                                    !.i = @ + 1]
    /\ UNCHANGED except_download

\* One turn of the loop whose downloadChunk rejects: the download is abandoned
downloadChunkFails ==
    /\ download.phase = "running"
    /\ hasNextChunk(download)
    /\ download' = [download EXCEPT !.requests = Append(@, nextRange(download)),
                                    !.phase = "failed"]
    /\ UNCHANGED except_download

\* The loop ends
downloadCompletes ==
    /\ download.phase = "running"
    /\ ~hasNextChunk(download)
    /\ download' = [download EXCEPT !.phase = "done"]
    /\ UNCHANGED except_download

----------------------------------------------------------------------------
(* Process entry point: the command line *)

CLIDefaults == [defense |-> TRUE, defenseMode |-> "medium", port |-> 3001, help |-> FALSE]

\* parseInt of an argument: its value, or -1 where it gives NaN
parsePort(arg) == IF arg = "8080" THEN 8080 ELSE IF arg = "0" THEN 0 ELSE -1

\* parseArgs from argument i on; the argument after the last is undefined
RECURSIVE parseArgsFrom(_, _, _)
parseArgsFrom(args, i, result) ==
    IF i > Len(args) THEN result
    ELSE LET arg == args[i]
             value == IF i + 1 <= Len(args) THEN args[i + 1] ELSE "undefined"
         IN  IF arg \in {"--defense", "-d"}
             THEN parseArgsFrom(args, i + 2,
                    IF value \in {"false", "off", "disabled"}
                    THEN [result EXCEPT !.defense = FALSE, !.defenseMode = "off"]
                    ELSE IF value \in {"true", "on", "enabled"}
                    THEN [result EXCEPT !.defense = TRUE]
                    ELSE result)
             ELSE IF arg \in {"--defense-mode", "-dm"}
             THEN parseArgsFrom(args, i + 2,
                    IF value \in DefenseModes
                    THEN [result EXCEPT !.defenseMode = value, !.defense = value # "off"]
                    ELSE result)
             ELSE IF arg \in {"--port", "-p"}
             THEN parseArgsFrom(args, i + 2,
                    IF parsePort(value) > 0 /\ parsePort(value) <= 65535
                    THEN [result EXCEPT !.port = parsePort(value)]
                    ELSE result)
             ELSE IF arg \in {"--help", "-h"}
             THEN parseArgsFrom(args, i + 1, [result EXCEPT !.help = TRUE])
             ELSE IF arg = "--no-defense"
             THEN parseArgsFrom(args, i + 1,
                                [result EXCEPT !.defense = FALSE, !.defenseMode = "off"])
             ELSE parseArgsFrom(args, i + 1, result)

\* parseArgs on process.argv.slice(2)
parseArgs(args) == parseArgsFrom(args, 1, CLIDefaults)

\* The server is started with one more argument on its command line
startWithArgument(arg) ==
    /\ Len(cli.args) < MaxArgs
    /\ cli' = [args |-> Append(cli.args, arg), result |-> parseArgs(Append(cli.args, arg))]
    /\ UNCHANGED except_cli

----------------------------------------------------------------------------
(* Attack Orchestrator: construction *)

\* The configurations an operator or a caller can hand to the constructor: each field
\* at and beyond the limits of its range
OperatorConfigs ==
    [targetHost : {"", "127.0.0.1"}, targetPort : {0, 1, 65535, 65536},
     attackDuration : {0, 30}, packetInterval : {0, 50}, ackAdvanceSize : {0, 8760},
     windowScale : {0, 1, 4, 5}]

\* OptimisticACKAttacker.validateConfig: the message of the error it throws, "" for none
validateConfig(cfg) ==
    IF cfg.targetHost = "" THEN "Target host is required"
    ELSE IF cfg.targetPort <= 0 \/ cfg.targetPort > 65535
    THEN "Target port must be between 1 and 65535"
    ELSE IF cfg.attackDuration <= 0 THEN "Attack duration must be positive"
    ELSE IF cfg.packetInterval <= 0 THEN "Packet interval must be positive"
    ELSE IF cfg.ackAdvanceSize <= 0 THEN "ACK advance size must be positive"
    ELSE ""

\* new OptimisticACKAttacker(cfg)
newOptimisticACKAttacker(cfg) ==
    /\ construction' = [called |-> TRUE, config |-> cfg, error |-> validateConfig(cfg)]
    /\ UNCHANGED except_construction

----------------------------------------------------------------------------
(* Raw Transport Manager and the executeAttack that owns it *)

\* Code that holds the manager and calls its public initialize(), besides executeAttack
Callers == {"first", "second"}

\* What the platform's raw injection does with a packet: sends it, declines (no tool, no
\* privilege), or throws
RawOutcomes == {"sent", "declined", "throws"}

\* new RawSocketManager() inside a new orchestrator: nothing initialized, no socket.
\* socket is the state of the one net.Socket of the attack, tracked whether it is in the
\* connections map, connection whether the orchestrator's this.connection refers to it;
\* bodyRuns counts the runs of initializeRawSocket, waiting and completed are the
\* initialize() calls in flight and returned; send is the outcome of the last sendPacket
NewRawSocketManager ==
    [isInitialized |-> FALSE, initializationPromise |-> "null", bodyRuns |-> 0,
     waiting |-> {}, completed |-> {},
     socket |-> "none", tracked |-> FALSE, connection |-> FALSE,
     execution |-> "idle", isAttackActive |-> FALSE,
     send |-> [called |-> FALSE, wasInitialized |-> FALSE, raised |-> FALSE, via |-> "none"]]

\* An initialize() that starts initializeRawSocket whatever the promise
initializeUnmemoized(m, caller) ==
    [m EXCEPT !.initializationPromise = "pending", !.bodyRuns = @ + 1,
              !.waiting = @ \cup {caller}]

\* RawSocketManager.initialize called by caller: the manager it leaves. The first call
\* starts initializeRawSocket, which suspends at getLocalIP; the others get its promise
initialize(m, caller) ==
    IF m.initializationPromise = "null"
    THEN [m EXCEPT !.initializationPromise = "pending", !.bodyRuns = @ + 1,
                   !.waiting = @ \cup {caller}]
    ELSE IF m.initializationPromise = "pending"
    THEN [m EXCEPT !.waiting = @ \cup {caller}]
    ELSE [m EXCEPT !.completed = @ \cup {caller}]

\* A caller calls initialize()
callInitialize(caller) ==
    /\ caller \notin rawSocket.waiting \cup rawSocket.completed
    /\ rawSocket' = initialize(rawSocket, caller)
    /\ UNCHANGED except_rawSocket

\* initializeRawSocket resumes after getLocalIP (which always resolves) and returns:
\* the promise resolves and every awaiting caller continues
initializeRawSocket ==
    /\ rawSocket.initializationPromise = "pending"
    /\ rawSocket' = [rawSocket EXCEPT !.initializationPromise = "resolved",
                                      !.isInitialized = TRUE,
                                      !.completed = @ \cup rawSocket.waiting,
                                      !.waiting = {}]
    /\ UNCHANGED except_rawSocket

\* RawSocketManager.close
close(m) == [m EXCEPT !.socket = IF m.tracked /\ @ # "none" THEN "destroyed" ELSE @,
                      !.tracked = FALSE, !.isInitialized = FALSE]

\* A sendPacket whose catch rethrows instead of simulating
sendPacketRethrows(m, raw, manipulationThrows) ==
    IF ~m.isInitialized THEN [raised |-> TRUE, via |-> "none"]
    ELSE IF raw = "sent" THEN [raised |-> FALSE, via |-> "raw"]
    ELSE IF manipulationThrows THEN [raised |-> TRUE, via |-> "none"]
    ELSE [raised |-> FALSE, via |-> "manipulation"]

\* RawSocketManager.sendPacket: whether it raises and the strategy that took the packet.
\* sendRawTCPPacket turns a throw into false; sendViaSocketManipulation returns true
\* without a live tracked socket or with a writable one, false otherwise or on a throw
sendPacket(m, raw, manipulationThrows) ==
    IF ~m.isInitialized THEN [raised |-> TRUE, via |-> "none"]
    ELSE IF raw = "sent" THEN [raised |-> FALSE, via |-> "raw"]
    ELSE IF ~manipulationThrows
            /\ (~m.tracked \/ m.socket = "destroyed" \/ m.socket = "open")
    THEN [raised |-> FALSE, via |-> "manipulation"]
    ELSE [raised |-> FALSE, via |-> "simulation"]

\* A caller sends a packet through the manager
callSendPacket(raw, manipulationThrows) ==
    /\ rawSocket' = [rawSocket EXCEPT !.send =
            [called |-> TRUE, wasInitialized |-> rawSocket.isInitialized] @@
            sendPacket(rawSocket, raw, manipulationThrows)]
    /\ UNCHANGED except_rawSocket

\* OptimisticACKAttacker.executeAttack up to its await of rawSocket.initialize()
executeAttack ==
    /\ rawSocket.execution = "idle"
    /\ rawSocket' = [initialize(rawSocket, "executeAttack") EXCEPT
                        !.execution = "initializing"]
    /\ UNCHANGED except_rawSocket

\* executeAttack resumes: the attack is flagged active and establishConnection begins
\* (initialize() again when the manager is not ready, then the connect)
executeAttackConnects ==
    /\ rawSocket.execution = "initializing"
    /\ "executeAttack" \in rawSocket.completed
    /\ rawSocket' = [(IF rawSocket.isInitialized THEN rawSocket
                      ELSE initialize(rawSocket, "establishConnection")) EXCEPT
                        !.isAttackActive = TRUE, !.execution = "connecting"]
    /\ UNCHANGED except_rawSocket

\* RawSocketManager.establishConnection connects: the socket is tracked and becomes the
\* orchestrator's connection; the loop starts
connected ==
    /\ rawSocket.execution = "connecting"
    /\ rawSocket' = [rawSocket EXCEPT !.socket = "open", !.tracked = TRUE,
                                      !.connection = TRUE, !.execution = "looping"]
    /\ UNCHANGED except_rawSocket

\* RawSocketManager.establishConnection rejects (socket error or the 10 s timeout):
\* establishConnection rethrows and executeAttack raises
connectionError ==
    /\ rawSocket.execution = "connecting"
    /\ rawSocket' = [rawSocket EXCEPT !.socket = "destroyed", !.execution = "raised"]
    /\ UNCHANGED except_rawSocket

\* The peer ends the connection: the socket is no longer writable
peerEnds ==
    /\ rawSocket.socket = "open"
    /\ rawSocket' = [rawSocket EXCEPT !.socket = "ended"]
    /\ UNCHANGED except_rawSocket

\* One firing of the loop's interval: an inactive attack resolves the loop and
\* executeAttack returns; an active one sends when the manager is ready
loopTick(raw, manipulationThrows) ==
    /\ rawSocket.execution = "looping"
    /\ rawSocket' =
            IF ~rawSocket.isAttackActive
            THEN [rawSocket EXCEPT !.execution = "finished"]
            ELSE IF ~rawSocket.isInitialized THEN rawSocket
            ELSE [rawSocket EXCEPT !.send =
                    [called |-> TRUE, wasInitialized |-> TRUE] @@
                    sendPacket(rawSocket, raw, manipulationThrows)]
    /\ UNCHANGED except_rawSocket

\* The loop's duration timer: the attack is flagged inactive, the loop resolves and
\* executeAttack returns
attackDurationCompleted ==
    /\ rawSocket.execution = "looping"
    /\ rawSocket' = [rawSocket EXCEPT !.isAttackActive = FALSE, !.execution = "finished"]
    /\ UNCHANGED except_rawSocket

\* OptimisticACKAttacker.stopAttack on the orchestrator (the CLI's interrupt handler)
interrupt ==
    /\ rawSocket.execution \in {"initializing", "connecting", "looping"}
    /\ rawSocket' = close([rawSocket EXCEPT
                            !.isAttackActive = FALSE,
                            !.socket = IF rawSocket.connection THEN "destroyed" ELSE @,
                            !.connection = FALSE])
    /\ UNCHANGED except_rawSocket

----------------------------------------------------------------------------
(* Process entry point: control endpoints and the realtime channel *)

ControlOps == {"start", "stop"}
RealtimeEvents == {"request-metrics", "request-server-status", "start-server", "stop-server"}

\* new App(): no metrics interval, no client; the dashboard shows the server stopped
\* and has no socket object until useWebSocket's effect created one.
\* emitted is everything sent on the realtime channel, last the last request and what
\* its handler sent
NewApp ==
    [metricsInterval |-> FALSE, connected |-> FALSE, socket |-> FALSE,
     isServerRunning |-> FALSE,
     emitted |-> <<>>, last |-> [channel |-> "none", op |-> "none", sent |-> <<>>]]

Emit(event, value, to) == [event |-> event, value |-> value, to |-> to]

\* getSystemMetrics and the emit of its snapshot, inside try/catch
metricsUpdate(to, metricsFail) ==
    IF metricsFail THEN <<>> ELSE <<Emit("metrics-update", "snapshot", to)>>

\* POST /api/server/start and /api/server/stop: what the handler sends.
\* startMetricsEmission emits one snapshot (its setInterval is commented out) unless an
\* interval is set, stopMetricsEmission clears the interval; then the status goes to all
controlEndpoint(a, op, metricsFail) ==
    IF op = "start"
    THEN (IF a.metricsInterval THEN <<>> ELSE metricsUpdate("all", metricsFail))
            \o <<Emit("server-status", TRUE, "all")>>
    ELSE <<Emit("server-status", FALSE, "all")>>

\* The handlers registered on a connection in initializeWebSockets: what each sends.
\* An event without a handler is dropped
realtimeHandler(event, metricsFail) ==
    IF event = "request-metrics" THEN metricsUpdate("socket", metricsFail)
    ELSE IF event = "request-server-status" THEN <<Emit("server-status", TRUE, "socket")>>
    ELSE <<>>

\* The dashboard's handleServerStatus applied to what a handler sent
dashboardAfter(a, sent) ==
    LET statuses == SelectSeq(sent, LAMBDA e : e.event = "server-status")
    IN  IF a.connected /\ statuses # <<>> THEN statuses[Len(statuses)].value
        ELSE a.isServerRunning

\* The handler's emits reach the channel, the dashboard and the record of the request
served(a, channel, op, sent) ==
    [a EXCEPT !.emitted = @ \o sent, !.isServerRunning = dashboardAfter(a, sent),
              !.last = [channel |-> channel, op |-> op, sent |-> sent]]

\* A client connects: the connection handler sends it the status and the metrics
connection(metricsFail) ==
    /\ ~app.connected
    /\ Len(app.emitted) < MaxEvents
    /\ app' = served([app EXCEPT !.connected = TRUE, !.socket = TRUE],
                     "realtime", "connection",
                     <<Emit("server-status", TRUE, "socket")>>
                        \o metricsUpdate("socket", metricsFail))
    /\ UNCHANGED except_app

disconnect ==
    /\ app.connected
    /\ app' = [app EXCEPT !.connected = FALSE,
                          !.last = [channel |-> "realtime", op |-> "disconnect",
                                    sent |-> <<>>]]
    /\ UNCHANGED except_app

\* POST /api/server/start | stop
postServer(op, metricsFail) ==
    /\ Len(app.emitted) < MaxEvents
    /\ app' = served([app EXCEPT !.metricsInterval = IF op = "stop" THEN FALSE ELSE @],
                     "http", op, controlEndpoint(app, op, metricsFail))
    /\ UNCHANGED except_app

\* The connected client sends an event on the realtime channel
realtimeEvent(event, metricsFail) ==
    /\ app.connected
    /\ Len(app.emitted) < MaxEvents
    /\ app' = served(app, "realtime", event, realtimeHandler(event, metricsFail))
    /\ UNCHANGED except_app

\* useWebSocket's effect: the dashboard holds a socket object from now on, whether
\* its connection attempt succeeds (connection), fails or is still under way
useWebSocket ==
    /\ ~app.socket
    /\ app' = [app EXCEPT !.socket = TRUE,
                          !.last = [channel |-> "none", op |-> "useWebSocket",
                                    sent |-> <<>>]]
    /\ UNCHANGED except_app

\* Dashboard.handleStartServer / handleStopServer: with a socket object the event is
\* emitted on it (the server has no handler for it; unconnected, it is buffered);
\* without one the HTTP endpoint is called and its answer sets isServerRunning
handleServer(op, metricsFail) ==
    /\ Len(app.emitted) < MaxEvents
    /\ app' = LET handler == IF op = "start" THEN "handleStartServer"
                             ELSE "handleStopServer"
              IN  IF app.socket
                  THEN served(app, "realtime", handler, <<>>)
                  ELSE [served([app EXCEPT !.metricsInterval =
                                                IF op = "stop" THEN FALSE ELSE @],
                               "http", handler, controlEndpoint(app, op, metricsFail))
                            EXCEPT !.isServerRunning = (op = "start")]
    /\ UNCHANGED except_app

----------------------------------------------------------------------------
(* HLS playlists: generated by the Streaming Server, parsed by its clients *)
(* A string is the sequence of its pieces; "\n", " " and "#" are pieces of their own. *)

\* Entries a stream directory may hold
DirectoryEntries ==
    {<<"segment000", ".ts">>, <<"segment001", ".ts">>, <<"playlist", ".m3u8">>,
     <<"#", "intro", ".ts">>, <<" ", "segment002", ".ts">>, <<".ts">>}

\* Every state of data/streams/<streamId>: absent, or holding some of the entries
AbsentDirectory == [exists |-> FALSE, entries |-> {}]
StreamDirectories ==
    {AbsentDirectory} \cup {[exists |-> TRUE, entries |-> e] : e \in SUBSET DirectoryEntries}

PlaylistClients == {"orchestrator", "panel"}

\* A rank of the pieces that orders them as their UTF-16 code units do
CodeUnit(piece) ==
    CASE piece = " " -> 32
      [] piece = "#" -> 35
      [] piece = ".ts" -> 46
      [] piece = "intro" -> 105
      [] piece = "playlist" -> 112
      [] piece = "segment000" -> 1150
      [] piece = "segment001" -> 1151
      [] piece = "segment002" -> 1152
      [] OTHER -> 200

\* a < b for strings, as Array.prototype.sort() without a comparator orders them
RECURSIVE Precedes(_, _)
Precedes(a, b) ==
    IF b = <<>> THEN FALSE
    ELSE IF a = <<>> THEN TRUE
    ELSE IF CodeUnit(Head(a)) # CodeUnit(Head(b)) THEN CodeUnit(Head(a)) < CodeUnit(Head(b))
    ELSE Precedes(Tail(a), Tail(b))

\* names.sort()
RECURSIVE sort(_)
sort(names) ==
    IF names = {} THEN <<>>
    ELSE LET first == CHOOSE n \in names : \A o \in names \ {n} : Precedes(n, o)
         IN  <<first>> \o sort(names \ {first})

endsWith(s, suffix) == s # <<>> /\ s[Len(s)] = suffix
startsWith(s, prefix) == s # <<>> /\ s[1] = prefix

RECURSIVE Concat(_)
Concat(strings) ==
    IF strings = <<>> THEN <<>> ELSE Head(strings) \o Concat(Tail(strings))

PlaylistHeader ==
    <<"#", "EXTM3U", "\n", "#", "EXT-X-VERSION:3", "\n", "#", "EXT-X-TARGETDURATION:10",
      "\n", "#", "EXT-X-MEDIA-SEQUENCE:0", "\n">>

\* A playlist that gives every segment its line without the #EXTINF line before it
generateHLSPlaylistBare(dir) ==
    IF ~dir.exists THEN PlaylistHeader \o <<"#", "EXT-X-ENDLIST">>
    ELSE LET segments == sort({file \in dir.entries : endsWith(file, ".ts")})
         IN  PlaylistHeader
                \o Concat([k \in 1..Len(segments) |-> segments[k] \o <<"\n">>])
                \o <<"#", "EXT-X-ENDLIST">>

\* StreamingServer.generateHLSPlaylist
generateHLSPlaylist(dir) ==
    IF ~dir.exists THEN PlaylistHeader \o <<"#", "EXT-X-ENDLIST">>
    ELSE LET segments == sort({file \in dir.entries : endsWith(file, ".ts")})
         IN  PlaylistHeader
                \o Concat([k \in 1..Len(segments) |->
                            <<"#", "EXTINF:10.0,", "\n">> \o segments[k] \o <<"\n">>])
                \o <<"#", "EXT-X-ENDLIST">>

\* s.split('\n')
RECURSIVE split(_)
split(s) ==
    IF \A k \in 1..Len(s) : s[k] # "\n" THEN <<s>>
    ELSE LET k == CHOOSE i \in 1..Len(s) : s[i] = "\n" /\ \A j \in 1..(i - 1) : s[j] # "\n"
         IN  <<SubSeq(s, 1, k - 1)>> \o split(SubSeq(s, k + 1, Len(s)))

\* s.trim()
RECURSIVE trim(_)
trim(s) ==
    IF s = <<>> THEN s
    ELSE IF Head(s) = " " THEN trim(Tail(s))
    ELSE IF s[Len(s)] = " " THEN trim(SubSeq(s, 1, Len(s) - 1))
    ELSE s

\* parsePlaylist of the orchestrator and of the streaming panel (the same code)
parsePlaylist(playlist) ==
    LET lines == split(playlist)
        kept == SelectSeq(lines, LAMBDA line : trim(line) # <<>> /\ ~startsWith(line, "#"))
    IN  [k \in 1..Len(kept) |-> trim(kept[k])]

\* GET /stream/:streamId/playlist.m3u8 by a client, which parses the answer
handlePlaylist(client, dir) ==
    /\ stream' = [client |-> client, dir |-> dir, playlist |-> generateHLSPlaylist(dir),
                  streamSegments |-> parsePlaylist(generateHLSPlaylist(dir))]
    /\ UNCHANGED except_stream

----------------------------------------------------------------------------
(* Streaming Server: the download handler *)

\* The content of a file of the given size: byte k of it is FileByte(k)
FileByte(offset) == 65 + offset
FileContent(size) == [k \in 1..size |-> FileByte(k - 1)]

\* data/files: a name without a file, and files of every size up to MaxFileBytes
DataFiles == {[exists |-> FALSE, size |-> 0]}
                \cup {[exists |-> TRUE, size |-> n] : n \in 0..MaxFileBytes}

\* Range headers of a request: none, bytes=a-b and bytes=a-, within the file and beyond
RangeHeaders ==
    {NoRange} \cup {<<Num(a), Num(b)>> : a, b \in 0..(MaxFileBytes + 1)}
              \cup {<<Num(a), EmptyPart>> : a \in 0..(MaxFileBytes + 1)}

\* fs.createReadStream(filePath, {start, end}) piped to the response: the bytes from
\* start to end inclusive that the file has; it throws when start is beyond end
createReadStream(size, start, end) ==
    IF start > end THEN [failed |-> TRUE, body |-> <<>>]
    ELSE [failed |-> FALSE, body |-> SubSeq(FileContent(size), start + 1, Min(end + 1, size))]

\* A handleRangeRequest that counts the bytes between start and end
handleRangeRequestExclusive(size, parts) ==
    LET start == parts[1].n
        end == IF parts[2].kind = "num" THEN parts[2].n ELSE size - 1
    IN  [status |-> 206, contentRange |-> [start |-> start, end |-> end, size |-> size],
         contentLength |-> end - start] @@ createReadStream(size, start, end)

\* StreamingServer.handleRangeRequest
handleRangeRequest(size, parts) ==
    LET start == parts[1].n
        end == IF parts[2].kind = "num" THEN parts[2].n ELSE size - 1
        chunksize == (end - start) + 1
    IN  [status |-> 206, contentRange |-> [start |-> start, end |-> end, size |-> size],
         contentLength |-> chunksize] @@ createReadStream(size, start, end)

NoContentRange == [start |-> -1, end |-> -1, size |-> -1]

\* StreamingServer.handleFileDownload
handleFileDownload(file, range) ==
    /\ fileResponse' =
            [requested |-> TRUE, file |-> file, range |-> range] @@
            (IF ~file.exists
             THEN [status |-> 404, contentRange |-> NoContentRange, contentLength |-> -1,
                   failed |-> FALSE, body |-> <<>>]
             ELSE IF range # NoRange THEN handleRangeRequest(file.size, range)
             ELSE [status |-> 200, contentRange |-> NoContentRange,
                   contentLength |-> file.size] @@
                  createReadStream(file.size, 0, file.size))
    /\ UNCHANGED except_fileResponse

----------------------------------------------------------------------------
(* Speed improvement: the orchestrator's analysis and the CLI's final results *)
(* A verdict is named by its tier; the texts printed are quoted at each operator. *)

\* Speeds in bytes per second. Baselines: none, the 500 KB/s fallback of a failed
\* measurement, 1 MB/s. Every attack speed is a whole percentage of both baselines
BaselineSpeeds == {0, 500000, 1000000}
AttackSpeeds ==
    {0, 900000, 1000000, 1010000, 1050000, 1060000, 1200000, 1210000, 1300000, 1500000}

\* The metrics of a new orchestrator; analysis is the verdict calculateSpeedImprovement
\* logged, verdict the one displayFinalResults printed
NoResults ==
    [baselineSpeed |-> 0, attackSpeed |-> 0, speedImprovement |-> 0, phase |-> "idle",
     analysis |-> "none", verdict |-> "none"]

\* measureBaselineSpeed, then startConcurrentTransfer: the two speeds are in the metrics
measureSpeeds(baseline, attack) ==
    /\ results.phase = "idle"
    /\ results' = [results EXCEPT !.baselineSpeed = baseline, !.attackSpeed = attack,
                                  !.phase = "measured"]
    /\ UNCHANGED except_results

\* The verdict logged by calculateSpeedImprovement: "Attack was highly successful!",
\* "Attack was successful!", "Marginal improvement detected.", "No improvement detected."
analysisOf(speedImprovement) ==
    IF speedImprovement > 20 THEN "highly successful"
    ELSE IF speedImprovement > 5 THEN "successful"
    ELSE IF speedImprovement > 0 THEN "marginal"
    ELSE "no improvement detected"

\* OptimisticACKAttacker.calculateSpeedImprovement
calculateSpeedImprovement ==
    /\ results.phase = "measured"
    /\ results' =
            IF results.baselineSpeed > 0 /\ results.attackSpeed > 0
            THEN LET improvement ==
                        ((results.attackSpeed - results.baselineSpeed) * 100)
                            \div results.baselineSpeed
                 IN  [results EXCEPT !.speedImprovement = improvement,
                                     !.analysis = analysisOf(improvement),
                                     !.phase = "calculated"]
            ELSE [results EXCEPT !.phase = "calculated"]
    /\ UNCHANGED except_results

\* A Result row that counts an improvement of exactly 5 as successful
resultRowInclusive(metrics) ==
    IF metrics.baselineSpeed > 0 /\ metrics.attackSpeed > 0
    THEN IF metrics.speedImprovement >= 5 THEN "successful"
         ELSE IF metrics.speedImprovement > 0 THEN "marginal"
         ELSE "no improvement detected"
    ELSE "stopped abruptly"

\* The Result row of AttackCLI.displayFinalResults: "SUCCESSFUL ATTACK!", "Marginal
\* improvement", "No improvement detected"; without both speeds no row but the message
\* "Attack Stopped Abruptly"
resultRow(metrics) ==
    IF metrics.baselineSpeed > 0 /\ metrics.attackSpeed > 0
    THEN IF metrics.speedImprovement > 5 THEN "successful"
         ELSE IF metrics.speedImprovement > 0 THEN "marginal"
         ELSE "no improvement detected"
    ELSE "stopped abruptly"

\* AttackCLI.displayFinalResults, after executeAttack returned or from the interrupt
\* handler at any moment of the attack
displayFinalResults ==
    /\ results.phase # "shown"
    /\ results' = [results EXCEPT !.verdict = resultRow(results), !.phase = "shown"]
    /\ UNCHANGED except_results

----------------------------------------------------------------------------
(* Attack Orchestrator: one executeAttack, its phases and its transfer *)

\* packetInterval values whose quarter is whole: 20 / 4 is under the 10 ms floor
RunConfigs ==
    [measureSpeed : BOOLEAN, enableTransfer : BOOLEAN,
     transferType : {"download", "streaming"}, packetInterval : {20, 100}]

BrowserAgent == "Mozilla/5.0 (legitimate-browser)"
AttackToolAgent == "OptimisticACK-Attack-Tool/1.0"
HLSClientAgent == "OptimisticACK-HLS-Client/1.0"

\* loop and transfer are "none", "running" and then how they ended; period is the delay
\* given to setInterval, lastGap the time between the last tick and the one before (or
\* the loop's start), tickStreaming whether a streaming transfer was active over it,
\* lateTicks the ticks that began after the attack was flagged inactive; requests are the chunk and segment requests issued, outcome how executeAttack ended
IdleRun ==
    [config |-> [measureSpeed |-> FALSE, enableTransfer |-> FALSE,
                 transferType |-> "download", packetInterval |-> 20],
     phase |-> "idle", isAttackActive |-> FALSE, transferActive |-> FALSE,
     loop |-> "none", transfer |-> "none", period |-> 0, ticks |-> 0, lastGap |-> 0,
     tickStreaming |-> FALSE, lateTicks |-> 0, requests |-> <<>>, outcome |-> "pending"]

\* OptimisticACKAttacker.getAdaptivePacketInterval
getAdaptivePacketInterval(r) ==
    IF r.config.transferType = "streaming" /\ r.transferActive
    THEN Max(r.config.packetInterval \div 4, 10)
    ELSE r.config.packetInterval

\* The time between two firings of the loop's setInterval: the delay it was created with
tickGap(r) == r.period

\* The User-Agent header of downloadChunk (by isAttackActive) and of
\* downloadStreamSegment (by duringAttack)
userAgent(r, duringAttack) ==
    IF r.config.transferType = "download"
    THEN IF r.isAttackActive THEN AttackToolAgent ELSE BrowserAgent
    ELSE IF duringAttack THEN HLSClientAgent ELSE BrowserAgent

\* A Promise.all that rejects with the error of a failed transfer
settledRejecting(r) ==
    IF r.transfer = "failed"
    THEN [r EXCEPT !.phase = "raised", !.outcome = "rejected"]
    ELSE IF r.loop = "resolved" /\ r.transfer # "running"
    THEN [r EXCEPT !.phase = "finished", !.outcome = "resolved"]
    ELSE r

\* Promise.all of the loop and the transfer: executeAttack returns when both are settled.
\* startConcurrentTransfer resolves whether the transfer succeeded or failed
settled(r) ==
    IF r.loop = "resolved" /\ r.transfer # "running"
    THEN [r EXCEPT !.phase = "finished", !.outcome = "resolved"]
    ELSE r

\* establishConnection, whose failure executeAttack rethrows; then
\* startOptimisticACKLoop creates the interval and only then startConcurrentTransfer
\* flags the transfer active
startAttackAndTransfer(r, connects) ==
    LET looping == [r EXCEPT !.phase = "attack", !.loop = "running",
                             !.period = getAdaptivePacketInterval(r)]
    IN  IF ~connects THEN [r EXCEPT !.phase = "raised", !.outcome = "rejected"]
        ELSE IF r.config.enableTransfer
        THEN [looping EXCEPT !.transferActive = TRUE, !.transfer = "running"]
        ELSE looping

\* OptimisticACKAttacker.executeAttack up to the first phase
runExecuteAttack(cfg, connects) ==
    /\ run.phase = "idle"
    /\ run' = LET r == [run EXCEPT !.config = cfg, !.isAttackActive = TRUE]
              IN  IF cfg.measureSpeed THEN [r EXCEPT !.phase = "baseline"]
                  ELSE startAttackAndTransfer(r, connects)
    /\ UNCHANGED except_run

\* A chunk or segment request of the running transfer, baseline or concurrent
transferRequest ==
    /\ \/ run.phase = "baseline"
       \/ run.transfer = "running" /\ ~(run.config.transferType = "streaming"
                                          /\ ~run.isAttackActive)
    /\ Len(run.requests) < MaxRequests
    /\ run' = [run EXCEPT !.requests =
                    Append(@, [phase |-> run.phase,
                               userAgent |-> userAgent(run, run.phase = "attack")])]
    /\ UNCHANGED except_run

\* measureBaselineSpeed returns (a failed baseline falls back to 500 KB/s) and
\* executeAttackWithTransfer starts
baselineEnds(connects) ==
    /\ run.phase = "baseline"
    /\ run' = startAttackAndTransfer(run, connects)
    /\ UNCHANGED except_run

\* The concurrent transfer ends: performTransfer resolved, or rejected (no file size, no
\* playlist, a failed chunk) and startConcurrentTransfer caught and logged the error
transferEnds(failed) ==
    /\ run.transfer = "running"
    /\ run' = settled([run EXCEPT !.transferActive = FALSE,
                                  !.transfer = IF failed THEN "failed" ELSE "done"])
    /\ UNCHANGED except_run

\* One firing of the loop's interval, tickGap after the one before
runTick ==
    /\ run.loop = "running"
    /\ run.ticks < MaxPackets
    /\ run' = IF ~run.isAttackActive
              THEN settled([run EXCEPT !.loop = "resolved", !.lateTicks = @ + 1])
              ELSE [run EXCEPT !.ticks = @ + 1, !.lastGap = tickGap(run),
                               !.tickStreaming = run.config.transferType = "streaming"
                                                    /\ run.transferActive]
    /\ UNCHANGED except_run

\* A duration timer that flags the attack inactive and leaves the loop to its ticks
runDurationElapsedFlagOnly ==
    /\ run.loop = "running"
    /\ run' = [run EXCEPT !.isAttackActive = FALSE]
    /\ UNCHANGED except_run

\* The loop's duration timer
runDurationElapsed ==
    /\ run.loop = "running"
    /\ run' = settled([run EXCEPT !.isAttackActive = FALSE, !.loop = "resolved"])
    /\ UNCHANGED except_run

\* stopAttack during the run
runStopAttack ==
    /\ run.phase \in {"baseline", "attack"}
    /\ run.isAttackActive
    /\ run' = [run EXCEPT !.isAttackActive = FALSE]
    /\ UNCHANGED except_run

----------------------------------------------------------------------------
(* Traffic Analyzer *)

SequenceGapBytes == 1000000

TrafficPattern(sourceIP, sourcePort, ackNumber, windowSize) ==
    [timestamp |-> 0, sourceIP |-> sourceIP, sourcePort |-> sourcePort,
     ackNumber |-> ackNumber, windowSize |-> windowSize, flags |-> {"ACK"}]

\* `${packet.sourceIP}:${packet.sourcePort}`
connectionKey(packet) == <<packet.sourceIP, ":", packet.sourcePort>>

ConnectionKeys == {<<ip, ":", port>> : ip \in {"10.0.0.1"}, port \in {40001, 40002}}

\* slice(-n)
slice(s, n) == IF Len(s) <= n THEN s ELSE SubSeq(s, Len(s) - n + 1, Len(s))

\* a Map without a key reads as the empty history: every reader tests the length too
NoSignature ==
    [rapidACKs |-> FALSE, abnormalWindowGrowth |-> FALSE, sequenceGaps |-> FALSE,
     suspiciousPattern |-> FALSE]

NewTrafficAnalyzer ==
    [trafficHistory |-> <<>>,
     windowSizeHistory |-> [k \in ConnectionKeys |-> <<>>],
     ackFrequencyMap |-> [k \in ConnectionKeys |-> <<>>],
     analyzed |-> FALSE, signature |-> NoSignature]

updateWindowSizeHistory(history, packet) ==
    LET pushed == Append(history, packet.windowSize)
    IN  IF Len(pushed) > 100 THEN SubSeq(pushed, Len(pushed) - 50 + 1, Len(pushed))
        ELSE pushed

RECURSIVE dropOlder(_, _)
dropOlder(ackTimes, cutoffTime) ==
    IF ackTimes # <<>> /\ Head(ackTimes) < cutoffTime
    THEN dropOlder(Tail(ackTimes), cutoffTime)
    ELSE ackTimes

updateACKFrequency(ackTimes, packet) ==
    IF "ACK" \notin packet.flags THEN ackTimes
    ELSE dropOlder(Append(ackTimes, packet.timestamp), packet.timestamp - 10000)

detectRapidACKs(ackTimes, dateNow) ==
    IF Len(ackTimes) < 10 THEN FALSE
    ELSE Cardinality({i \in 1..Len(ackTimes) : ackTimes[i] > dateNow - 5000}) > 50

\* recent[i] > recent[i-1] * 1.5, in whole numbers
growthCount(recent) ==
    Cardinality({i \in 2..Len(recent) : 2 * recent[i] > 3 * recent[i - 1]})

\* counts only a run of growing steps
detectAbnormalWindowGrowthInARow(windowHistory) ==
    IF Len(windowHistory) < 5 THEN FALSE
    ELSE LET recent == slice(windowHistory, 5)
         IN  \E i \in 2..3 : \A j \in i..(i + 2) : 2 * recent[j] > 3 * recent[j - 1]

detectAbnormalWindowGrowth(windowHistory) ==
    IF Len(windowHistory) < 5 THEN FALSE
    ELSE growthCount(slice(windowHistory, 5)) >= 3

\* compares with the packet before, whichever connection sent it
detectSequenceGapsAnyConnection(trafficHistory, packet) ==
    IF Len(trafficHistory) < 2 THEN FALSE
    ELSE Abs(packet.ackNumber - trafficHistory[Len(trafficHistory) - 1].ackNumber)
            > SequenceGapBytes

detectSequenceGaps(trafficHistory, packet) ==
    LET recentPackets ==
            slice(SelectSeq(trafficHistory,
                            LAMBDA p : /\ p.sourceIP = packet.sourceIP
                                       /\ p.sourcePort = packet.sourcePort), 10)
    IN  IF Len(recentPackets) < 2 THEN FALSE
        ELSE Abs(packet.ackNumber - recentPackets[Len(recentPackets) - 1].ackNumber)
                > SequenceGapBytes

\* TrafficAnalyzer.analyzePacket with detectAttackSignatures
analyzePacket(packet) ==
    LET key == connectionKey(packet)
        pushed == Append(traffic.trafficHistory, packet)
        windows == updateWindowSizeHistory(traffic.windowSizeHistory[key], packet)
        ackTimes == updateACKFrequency(traffic.ackFrequencyMap[key], packet)
        rapid == detectRapidACKs(ackTimes, now)
        growth == detectAbnormalWindowGrowth(windows)
    IN  /\ traffic' =
            [trafficHistory |-> IF Len(pushed) > 10000 THEN slice(pushed, 5000) ELSE pushed,
             windowSizeHistory |-> [traffic.windowSizeHistory EXCEPT ![key] = windows],
             ackFrequencyMap |-> [traffic.ackFrequencyMap EXCEPT ![key] = ackTimes],
             analyzed |-> TRUE,
             signature |->
                [rapidACKs |-> rapid, abnormalWindowGrowth |-> growth,
                 sequenceGaps |-> detectSequenceGaps(pushed, packet),
                 suspiciousPattern |-> rapid /\ growth]]
        /\ UNCHANGED except_traffic

----------------------------------------------------------------------------
(* Connection Analyzer *)

AnalyzerIPs == {"10.0.0.1", "10.0.0.2"}
ConnectionTypes == {"file_download", "stream_request", "websocket"}
RandomSuffixes == {"k3j9x0q2a", "z8w1m4c7b"}

\* duration is <<>> until it is assigned; dateNow is Date.now(); returned holds, for
\* each id logConnection has returned, the entry it was returned for
NewConnectionAnalyzer ==
    [dateNow |-> 0,
     connections |-> [ip \in AnalyzerIPs |-> <<>>],
     activeConnections |-> {},
     metrics |-> [totalConnections |-> 0, activeConnections |-> 0,
                  connectionsByType |-> [t \in ConnectionTypes |-> 0],
                  averageConnectionDuration |-> <<0, 1>>, totalBytesTransferred |-> 0,
                  uniqueIPs |-> 0, suspiciousActivity |-> <<>>],
     returned |-> <<>>]

\* ConnectionAnalyzer.generateConnectionId, given an entry and given none
generateConnectionId(data) ==
    <<data.ip, "_", ToString(data.timestamp), "_", data.type>>

generateFreshConnectionId(dateNow, random) == <<ToString(dateNow), "_", random>>

\* every entry, IP by IP; what is computed from it does not depend on the order of the IPs
allConnections(connections) ==
    LET RECURSIVE gather(_)
        gather(ips) ==
            IF ips = {} THEN <<>>
            ELSE LET ip == CHOOSE i \in ips : TRUE
                 IN  connections[ip] \o gather(ips \ {ip})
    IN  gather(AnalyzerIPs)

RECURSIVE sum(_, _)
sum(s, field) == IF s = <<>> THEN 0 ELSE field[Head(s)] + sum(Tail(s), field)

\* ConnectionAnalyzer.updateMetrics; the average is the pair <<sum, count>> it divides
updateMetrics(connections, activeConnections, metrics) ==
    LET all == allConnections(connections)
        completedConnections ==
            SelectSeq(all, LAMBDA c : c.duration # <<>> /\ c.duration[1] # 0)
        durations == [i \in 1..Len(completedConnections) |-> completedConnections[i].duration[1]]
    IN  [metrics EXCEPT
            !.totalConnections = Len(all),
            !.activeConnections = Cardinality(activeConnections),
            !.uniqueIPs = Cardinality({ip \in AnalyzerIPs : connections[ip] # <<>>}),
            !.connectionsByType =
                [t \in ConnectionTypes |-> Len(SelectSeq(all, LAMBDA c : c.type = t))],
            !.averageConnectionDuration =
                IF Len(completedConnections) > 0
                THEN <<sum(durations, [d \in Nat |-> d]), Len(completedConnections)>>
                ELSE <<0, 1>>,
            !.totalBytesTransferred =
                sum([i \in 1..Len(all) |-> all[i].bytesTransferred], [b \in Nat |-> b])]

flagSuspiciousActivity(activities, ip, type, severity, dateNow) ==
    LET pushed == Append(activities,
                         [ip |-> ip, type |-> type, timestamp |-> dateNow,
                          severity |-> severity])
    IN  IF Len(pushed) > 100 THEN Tail(pushed) ELSE pushed

\* ConnectionAnalyzer.checkSuspiciousActivity
checkSuspiciousActivity(activities, ipConnections, newConnection, dateNow) ==
    LET recentConnections ==
            SelectSeq(ipConnections, LAMBDA c : dateNow - c.timestamp < 60000)
        typeCount == Len(SelectSeq(recentConnections, LAMBDA c : c.type = newConnection.type))
        rapid == IF Len(recentConnections) >= 10
                 THEN flagSuspiciousActivity(activities, newConnection.ip, "rapid_requests",
                                             "high", dateNow)
                 ELSE activities
    IN  IF typeCount > 5 /\ newConnection.type = "file_download"
        THEN flagSuspiciousActivity(rapid, newConnection.ip, "unusual_pattern", "medium",
                                    dateNow)
        ELSE rapid

\* ConnectionAnalyzer.logConnection
logConnection(ip, type, random) ==
    LET a == connectionAnalyzer
        id == generateFreshConnectionId(a.dateNow, random)
        connectionData == [ip |-> ip, timestamp |-> a.dateNow, type |-> type,
                           bytesTransferred |-> 0, duration |-> <<>>]
        pushed == Append(a.connections[ip], connectionData)
        ipConnections == IF Len(pushed) > 1000 THEN Tail(pushed) ELSE pushed
        connections == [a.connections EXCEPT ![ip] = ipConnections]
        activeConnections == a.activeConnections \cup {id}
        metrics == updateMetrics(connections, activeConnections, a.metrics)
    IN  /\ Len(a.returned) < MaxLogged
        /\ connectionAnalyzer' =
            [a EXCEPT !.connections = connections,
                      !.activeConnections = activeConnections,
                      !.metrics = [metrics EXCEPT !.suspiciousActivity =
                                      checkSuspiciousActivity(@, ipConnections,
                                                              connectionData, a.dateNow)],
                      !.returned = Append(@, [id |-> id, ip |-> ip,
                                              index |-> Len(ipConnections),
                                              closed |-> FALSE])]
        /\ UNCHANGED except_connectionAnalyzer

\* connections.find(c => generateConnectionId(c) === id), over the Map's values: the IP
\* and the index of the first match, or <<>>; an id matches entries of one IP only
findConnection(connections, id) ==
    LET matches == {<<ip, i>> \in AnalyzerIPs \X (1..MaxLogged) :
                        /\ i <= Len(connections[ip])
                        /\ generateConnectionId(connections[ip][i]) = id}
    IN  IF matches = {} THEN <<>>
        ELSE CHOOSE m \in matches : \A n \in matches : m[2] <= n[2]

\* ConnectionAnalyzer.closeConnection
closeConnectionOf(a, id) ==
    LET activeConnections == a.activeConnections \ {id}
        found == findConnection(a.connections, id)
        connections ==
            IF found = <<>> THEN a.connections
            ELSE [a.connections EXCEPT ![found[1]][found[2]].duration =
                        <<a.dateNow - a.connections[found[1]][found[2]].timestamp>>]
    IN  [a EXCEPT !.activeConnections = activeConnections,
                  !.connections = connections,
                  !.metrics = updateMetrics(connections, activeConnections, a.metrics)]

\* a caller closes a connection with an id logConnection gave it
closeConnection ==
    /\ \E i \in 1..Len(connectionAnalyzer.returned) :
            connectionAnalyzer' =
                [closeConnectionOf(connectionAnalyzer, connectionAnalyzer.returned[i].id)
                    EXCEPT !.returned[i].closed = TRUE]
    /\ UNCHANGED except_connectionAnalyzer

HalfDayMs == 43200000

\* ConnectionAnalyzer.cleanupOldConnections: entries older than 24 hours go, and an IP
\* left without entries goes with them
cleanupOldConnections(a) ==
    LET cutoffTime == a.dateNow - 2 * HalfDayMs
    IN  [a EXCEPT !.connections =
                    [ip \in AnalyzerIPs |->
                        SelectSeq(a.connections[ip], LAMBDA c : c.timestamp > cutoffTime)],
                  !.metrics.suspiciousActivity =
                    SelectSeq(@, LAMBDA s : a.dateNow - s.timestamp < 2 * HalfDayMs)]

RECURSIVE analyzeIPs(_, _, _)
\* ConnectionAnalyzer.performSecurityAnalysis, IP by IP
analyzeIPs(a, ips, activities) ==
    IF ips = {} THEN activities
    ELSE LET ip == CHOOSE i \in ips : TRUE
             recentConnections ==
                SelectSeq(a.connections[ip], LAMBDA c : a.dateNow - c.timestamp < 300000)
             totalBytes ==
                sum([i \in 1..Len(recentConnections) |->
                        recentConnections[i].bytesTransferred], [b \in Nat |-> b])
             ddos == IF Len(recentConnections) > 20
                     THEN flagSuspiciousActivity(activities, ip, "unusual_pattern", "high",
                                                 a.dateNow)
                     ELSE activities
             exfiltration ==
                     IF totalBytes > 500 * 1024 * 1024
                     THEN flagSuspiciousActivity(ddos, ip, "large_download", "high",
                                                 a.dateNow)
                     ELSE ddos
         IN  analyzeIPs(a, ips \ {ip}, IF a.connections[ip] = <<>> THEN activities
                                       ELSE exfiltration)

\* The 30-second interval of startAnalysis fires
analysisIntervalFires ==
    /\ connectionAnalyzer.dateNow > 0
    /\ connectionAnalyzer.dateNow % 30000 = 0
    /\ LET cleaned == cleanupOldConnections(connectionAnalyzer)
       IN  connectionAnalyzer' =
                [cleaned EXCEPT !.metrics.suspiciousActivity =
                    analyzeIPs(cleaned, AnalyzerIPs, @)]
    /\ UNCHANGED except_connectionAnalyzer

\* half a day passes
halfDayPasses ==
    /\ connectionAnalyzer.dateNow < MaxHalfDays * HalfDayMs
    /\ connectionAnalyzer' = [connectionAnalyzer EXCEPT !.dateNow = @ + HalfDayMs]
    /\ UNCHANGED except_connectionAnalyzer

\* time passes
analyzerClock ==
    /\ connectionAnalyzer.dateNow < MaxClock
    /\ connectionAnalyzer' = [connectionAnalyzer EXCEPT !.dateNow = @ + 1]
    /\ UNCHANGED except_connectionAnalyzer

----------------------------------------------------------------------------
(* Live Streaming Panel *)

\* The component after its first render. runs holds one entry per click on Start: the
\* handler awaiting the playlist ("playlist"), then its downloadSegmentsSequentially at
\* segment i awaiting the fetch ("fetching") or the 100 ms pause ("pause"), or "done";
\* segments is the length of the playlist that run received
NewLiveStreamingPanel ==
    [isStreaming |-> FALSE, streamingRef |-> FALSE, hasStatsToShow |-> FALSE,
     streamComplete |-> FALSE, connectionStatus |-> "idle",
     segmentCount |-> 0, totalSegments |-> 0, runs |-> <<>>]

\* downloadSegmentsSequentially from the top of iteration i to its next await
nextSegment(p, r, i) ==
    LET segments == p.runs[r].segments
    IN  IF i <= segments /\ p.streamingRef
        THEN [p EXCEPT !.runs[r].phase = "fetching", !.runs[r].i = i]
        ELSE IF p.streamingRef
        THEN [p EXCEPT !.runs[r].phase = "done", !.streamComplete = TRUE,
                       !.isStreaming = FALSE, !.streamingRef = FALSE]
        ELSE [p EXCEPT !.runs[r].phase = "done"]

\* handleStartStream up to its await of the playlist; the button shows while the panel
\* is not streaming
handleStartStream ==
    /\ ~panel.isStreaming
    /\ Len(panel.runs) < MaxStarts
    /\ panel' = [panel EXCEPT !.connectionStatus = "connecting", !.streamComplete = FALSE,
                              !.segmentCount = 0, !.totalSegments = 0,
                              !.runs = Append(@, [phase |-> "playlist", i |-> 0,
                                                  segments |-> 0])]
    /\ UNCHANGED except_panel

\* handleStartStream resumes with a playlist of `segments` segments: none is an error,
\* otherwise the download loop starts and runs to its first fetch
playlistArrives(r, segments) ==
    /\ r \in DOMAIN panel.runs
    /\ panel.runs[r].phase = "playlist"
    /\ panel' =
            IF segments = 0
            THEN [panel EXCEPT !.runs[r].phase = "done", !.connectionStatus = "error",
                               !.isStreaming = FALSE, !.streamingRef = FALSE]
            ELSE nextSegment([panel EXCEPT !.runs[r].segments = segments,
                                           !.totalSegments = segments,
                                           !.isStreaming = TRUE,
                                           !.connectionStatus = "connected",
                                           !.hasStatsToShow = TRUE,
                                           !.streamingRef = TRUE], r, 1)
    /\ UNCHANGED except_panel

\* downloadStreamSegment reads the last chunk: the metrics count the segment and the
\* loop pauses; or the fetch fails and the loop goes on to the next segment
segmentFetched(r, ok) ==
    /\ r \in DOMAIN panel.runs
    /\ panel.runs[r].phase = "fetching"
    /\ panel' = IF ok
                THEN [panel EXCEPT !.segmentCount = @ + 1, !.runs[r].phase = "pause"]
                ELSE nextSegment(panel, r, panel.runs[r].i + 1)
    /\ UNCHANGED except_panel

\* the 100 ms pause between two segments ends
pauseEnds(r) ==
    /\ r \in DOMAIN panel.runs
    /\ panel.runs[r].phase = "pause"
    /\ panel' = nextSegment(panel, r, panel.runs[r].i + 1)
    /\ UNCHANGED except_panel

\* the Stop button shows while the panel is streaming
handleStopStream ==
    /\ panel.isStreaming
    /\ panel' = [panel EXCEPT !.isStreaming = FALSE, !.connectionStatus = "idle",
                              !.streamingRef = FALSE]
    /\ UNCHANGED except_panel

\* the Clear button shows while there are statistics
handleClearStats ==
    /\ panel.hasStatsToShow
    /\ panel' = [panel EXCEPT !.segmentCount = 0, !.totalSegments = 0,
                              !.streamComplete = FALSE, !.hasStatsToShow = FALSE]
    /\ UNCHANGED except_panel

----------------------------------------------------------------------------
(* Specifications *)

InitWith(configs, attackConfigs) ==
    /\ config \in configs
    /\ now = 0
    /\ connectionStates = <<>>
    /\ quarantinedIPs = {}
    /\ quarantineTimers = {}
    /\ nextCleanup = CleanupIntervalMs
    /\ blocklist = {}
    /\ blocklistTimers = {}
    /\ connectionCounts = [ip \in IPs |-> 0]
    /\ lastCall = Call("none", <<>>, "0", NoPacket, MockAttackSignature,
                       NewConnectionState(<<>>, "0", 0), TRUE, NoAction, <<>>, FALSE)
    /\ enteredAt = [ip \in IPs |-> 0]
    /\ lastRelease = {}
    /\ response = Response("none", NoRequest, 0, <<>>, FALSE)
    /\ attacker \in {InitialAttacker(c) : c \in attackConfigs}
    /\ calls = 0
    /\ download = IdleDownload
    /\ construction = [called |-> FALSE, config |-> <<>>, error |-> ""]
    /\ rawSocket = NewRawSocketManager
    /\ app = NewApp
    /\ stream = [client |-> "none", dir |-> AbsentDirectory, playlist |-> <<>>,
                 streamSegments |-> <<>>]
    /\ fileResponse = [requested |-> FALSE]
    /\ results = NoResults
    /\ run = IdleRun
    /\ traffic = NewTrafficAnalyzer
    /\ connectionAnalyzer = NewConnectionAnalyzer
    /\ observed = <<>>
    /\ ackLog = <<>>
    /\ panel = NewLiveStreamingPanel
    /\ cli = [args |-> <<>>, result |-> parseArgs(<<>>)]

IdleAttack == {[ackAdvanceSize |-> 8760, windowScale |-> 1, enableTransfer |-> FALSE,
                transferType |-> "download"]}

\* The Defense System's packet checks, driven through validateConnection by one client
Init == InitWith(ComponentConfigs, IdleAttack)

Next ==
    \/ \E packet \in Packets(config) : validateConnection(IPv4, "0", packet)
    \/ markConnectionSuspicious(IPv4, "0")

Spec == Init /\ [][Next]_vars

\* The quarantine: runDefenseChecks with a supplied signature, the timers and the clock
QuarantineConfigs == {TightConfig, ServerConfig("low")}

InitQuarantine == InitWith(QuarantineConfigs, IdleAttack)

NextQuarantine ==
    \/ \E packet \in QuarantinePackets(config) : validateConnection(IPv4, "0", packet)
    \/ \E signature \in SuppliedSignatures :
            validateWithSignature(IPv4, "0", BenignPacket, signature)
    \/ markConnectionSuspicious(IPv4, "0")
    \/ forceRemoveFromQuarantine(IPv4)
    \/ \E timer \in quarantineTimers : quarantineTimeout(timer)
    \/ cleanupExpiredStates
    \/ Tick

SpecQuarantine == InitQuarantine /\ [][NextQuarantine]_vars

\* The middleware's three entry points, each called with one request; the blocklist is
\* filled by the Defense System's quarantine actions
MiddlewareConfigs == {StrictConfig, TightConfig}

InitMiddleware == InitWith(MiddlewareConfigs, IdleAttack)

NextMiddleware ==
    \/ \E req \in FilterRequests : createRequestFilter(req)
    \/ \E req \in DownloadRequests : createDownloadProtection(req)
    \/ \E req \in StreamRequests : createStreamProtection(req)
    \/ validateWithSignature(IPv4, "0", BenignPacket, TwoIndicators)

SpecMiddleware == InitMiddleware /\ [][NextMiddleware]_vars

\* The running server: every request goes through the global filter, then its route
InitServer == InitWith({ServerConfig(mode) : mode \in DefenseModes}, IdleAttack)

NextServer ==
    \/ \E route \in Routes, req \in ServerRequests : serverRequest(route, req)
    \/ connectionWindowExpires(IPv4)

SpecServer == InitServer /\ [][NextServer]_vars

\* The attack loop
InitAttack == InitWith({StrictConfig}, AttackConfigs)

NextAttack ==
    \/ \E isn \in InitialSequenceNumbers : establishConnection(isn)
    \/ attackTick
    \/ sendCompletes
    \/ transferCompletes
    \/ durationElapsed
    \/ stopAttack

SpecAttack == InitAttack /\ [][NextAttack]_vars

----------------------------------------------------------------------------
(* Properties *)

\* The connection the last Defense System call was about, as the call left it
lastConnection == connectionStates[connectionId(lastCall.ip, lastCall.port)]

\* C1: a validateConnection call for an IP that is in the quarantine set returns
\* allowed = false with a block action of severity high and reason "IP is quarantined",
\* whatever the packet.
C1_QuarantinedIsBlocked ==
    (lastCall.op = "validateConnection" /\ lastCall.wasQuarantined) =>
        /\ ~lastCall.allowed
        /\ lastCall.action.type = "block"
        /\ lastCall.action.severity = "high"
        /\ lastCall.action.reason = "IP is quarantined"

\* An optimistic ACK from a quarantined IP was answered
C1_Witness ==
    /\ lastCall.op = "validateConnection"
    /\ lastCall.wasQuarantined
    /\ "ACK" \in lastCall.packet.flags
    /\ ~lastCall.allowed

\* C2: with quarantine enabled, when a validateConnection call raises the connection's
\* anomaly score to suspiciousPatternThreshold or above, the connection's IP is in the
\* quarantine set when the call returns.
C2_ThresholdQuarantines ==
    (/\ config.quarantineEnabled
     /\ lastCall.op = "validateConnection"
     /\ lastConnection.anomalyScore > lastCall.scoreBefore
     /\ lastConnection.anomalyScore >= config.suspiciousPatternThreshold)
        => lastCall.ip \in quarantinedIPs

\* C3: an IP that entered the quarantine set at time t leaves it automatically (by the
\* timer or the cleanup sweep) no earlier than t + quarantineDuration and no later than
\* t + quarantineDuration + 60000, for every entry, a new entry after a release included.
C3_QuarantineLastsItsDuration ==
    \A r \in lastRelease :
        r.how \in {"timer", "cleanup"} =>
            /\ r.at >= r.entered + config.quarantineDuration
            /\ r.at <= r.entered + config.quarantineDuration + CleanupIntervalMs

\* C4: with ackValidationEnabled, an ACK-flagged packet on a connection that is suspicious
\* or scored above 0.5 is rejected by ACK validation (reject_packet, score raised by 0.3,
\* capped at 1.0) when it advances lastValidAck by 2G+1, and is not rejected by ACK
\* validation when it advances it by 2G.
C4_AckBoundary ==
    (/\ lastCall.op = "validateConnection"
     /\ config.ackValidationEnabled
     /\ "ACK" \in lastCall.packet.flags
     /\ lastCall.likely)
        => /\ lastCall.ackAdvance = 2 * config.maxSequenceGap + 1 =>
                /\ ~lastCall.allowed
                /\ lastCall.action.type = "reject_packet"
                /\ lastCall.action.reason = "Highly suspicious ACK detected"
                /\ lastConnection.anomalyScore = Min(100, lastCall.scoreBefore + 30)
           /\ lastCall.ackAdvance = 2 * config.maxSequenceGap =>
                lastCall.action.reason \notin {"Highly suspicious ACK detected",
                                               "Significant ACK regression detected"}

\* An advance of 2G+1 was rejected on a suspicious connection whose lastValidAck is an
\* accepted ACK of 2G
C4_Witness ==
    /\ lastCall.op = "validateConnection"
    /\ config.ackValidationEnabled
    /\ lastCall.likely
    /\ lastCall.ackAdvance = 2 * config.maxSequenceGap + 1
    /\ lastConnection.lastValidAck = 2 * config.maxSequenceGap
    /\ lastCall.action.type = "reject_packet"

C6_SimulatedAttackRejected ==
    (/\ response.entry \in {"download", "playlist", "segment"}
     /\ response.req.simulateAttack = "optimistic-ack")
        => response.status = 403 /\ ~response.handled

\* C7: on a defense-enabled server, in every mode, no request to the download or stream
\* routes is answered 429: connections are not counted against them.
C7_NoConnectionLimit ==
    response.entry \in {"download", "playlist", "segment"} => response.status # 429

\* C8: with the blocklist enabled, a request from a blocklisted IP is answered 403 by each
\* of the three entry points and is not passed on, before the whitelist, the throttling,
\* the stream validation and the attack detection are evaluated.
C8_BlocklistFirst ==
    (/\ config.blocklistEnabled
     /\ response.wasBlocked
     /\ response.entry \in {"filter", "download", "stream"})
        => /\ response.status = 403
           /\ {response.trace[i] : i \in DOMAIN response.trace} \cap
                  {"whitelist", "throttling", "stream", "attack"} = {}

\* A blocklisted client's request with a whitelisted user agent and a malformed stream id
\* was answered by the stream protection
C8_Witness ==
    /\ response.entry = "stream"
    /\ response.wasBlocked
    /\ response.req.userAgent = <<"Mozilla/">>
    /\ response.req.streamId = <<"a", "%">>
    /\ response.status = 403

\* C9: the blocklist gains an IP only during a Defense System call that emitted an action
\* of type quarantine and severity critical, and then only that action's IP; a call
\* emitting only other actions, and every other step, adds nothing.
C9_BlocklistOnlyOnQuarantine ==
    [][(blocklist' \ blocklist) \subseteq
            IF calls' # calls
            THEN {<<Head(lastCall'.emitted[i].connectionId)>> :
                    i \in {j \in DOMAIN lastCall'.emitted :
                        /\ lastCall'.emitted[j].type = "quarantine"
                        /\ lastCall'.emitted[j].severity = "critical"}}
            ELSE {}]_vars

\* The blocklist holds the IP of a call that emitted a critical quarantine action, after
\* an earlier call was answered with a block action that added nothing
C9_Witness ==
    /\ lastCall.action.type = "quarantine"
    /\ lastCall.action.severity = "critical"
    /\ lastCall.scoreBefore > 0
    /\ blocklist = {lastCall.ip}

\* C10: without the streaming override, after N ticks that each sent an optimistic ACK
\* the running ackNumber is the value set at connection establishment (1) plus N times
\* ackAdvanceSize, and the k-th packet sent carries 1 + k * ackAdvanceSize.
C10_AckNumberLinear ==
    (/\ attacker.phase # "idle"
     /\ ~(attacker.config.transferType = "streaming" /\ attacker.config.enableTransfer))
        => /\ attacker.ackNumber =
                1 + Len(attacker.sent) * attacker.config.ackAdvanceSize
           /\ \A k \in DOMAIN attacker.sent :
                attacker.sent[k].ackNumber = 1 + k * attacker.config.ackAdvanceSize

\* Three optimistic ACKs were sent beside a download transfer
C10_Witness ==
    /\ attacker.config.enableTransfer
    /\ attacker.config.transferType = "download"
    /\ Len(attacker.sent) = 3
    /\ attacker.ackNumber = 1 + 3 * attacker.config.ackAdvanceSize

\* C11: in every reachable state of the Attack Orchestrator packetsPressed equals
\* successfulAcks, whatever the interleaving of loop ticks, sends in flight, transfer
\* callbacks and stopAttack.
C11_PressedEqualsSuccessful ==
    attacker.packetsPressed = attacker.successfulAcks

\* Two sends were counted and another is in flight after the attack was stopped
C11_Witness ==
    /\ attacker.packetsPressed >= 2
    /\ attacker.inFlight > 0
    /\ attacker.phase = "attacking"
    /\ ~attacker.isAttackActive
    /\ ~attacker.ready

\* Chunked downloads of files of every size by both clients
InitDownload == InitWith({StrictConfig}, IdleAttack)

NextDownload ==
    \/ \E client \in DownloadClients, ackAdvanceSize \in AdvanceSizes, fileSize \in FileSizes :
            startChunkedDownload(client, ackAdvanceSize, fileSize)
    \/ downloadChunk
    \/ downloadChunkFails
    \/ downloadCompletes

SpecDownload == InitDownload /\ [][NextDownload]_vars

\* C12: a chunked download of a file of S > 0 bytes in chunks of C bytes that runs to its
\* end has issued exactly ceil(S / C) Range requests, in increasing order, whose spans are
\* disjoint and cover exactly the bytes 0 .. S - 1; C is max(ackAdvanceSize, 65536) for the
\* orchestrator and 65536 for the dashboard panel.
C12_ChunksTileTheFile ==
    (download.phase = "done" /\ download.fileSize > 0) =>
        LET r == download.requests
            n == Len(r)
            S == download.fileSize
            C == download.chunkSize
        IN  /\ (n - 1) * C < S /\ S <= n * C
            /\ r[1].start = 0
            /\ r[n].end = S - 1
            /\ \A k \in 1..n : r[k].start <= r[k].end /\ r[k].end - r[k].start < C
            /\ \A k \in 1..(n - 1) : r[k + 1].start = r[k].end + 1

\* The orchestrator downloaded a file of three chunks whose last chunk is one byte
C12_Witness ==
    /\ download.phase = "done"
    /\ download.client = "orchestrator"
    /\ download.chunkSize = MinChunkSize
    /\ download.fileSize = 2 * MinChunkSize + 1
    /\ Len(download.requests) = 3

\* Constructions of the orchestrator with every operator configuration
InitConstruction == InitWith({StrictConfig}, IdleAttack)

NextConstruction == \E cfg \in OperatorConfigs : newOptimisticACKAttacker(cfg)

SpecConstruction == InitConstruction /\ [][NextConstruction]_vars

\* C13: constructing an orchestrator raises a configuration error exactly when the config
\* violates one of: targetHost non-empty, targetPort in 1..65535, attackDuration > 0,
\* packetInterval > 0, ackAdvanceSize > 0, windowScale in [1, 4].
C13_ConstructionValidates ==
    construction.called =>
        (construction.error # "" <=>
            \/ construction.config.targetHost = ""
            \/ construction.config.targetPort \notin 1..65535
            \/ construction.config.attackDuration <= 0
            \/ construction.config.packetInterval <= 0
            \/ construction.config.ackAdvanceSize <= 0
            \/ construction.config.windowScale < 1
            \/ construction.config.windowScale > 4)

\* The manager under its callers and under one executeAttack, with interrupts
SpecTransport ==
    /\ InitWith({StrictConfig}, IdleAttack)
    /\ [][\/ \E caller \in Callers : callInitialize(caller)
          \/ initializeRawSocket
          \/ \E raw \in RawOutcomes, throws \in BOOLEAN : callSendPacket(raw, throws)
          \/ executeAttack
          \/ executeAttackConnects
          \/ connected
          \/ connectionError
          \/ peerEnds
          \/ \E raw \in RawOutcomes, throws \in BOOLEAN : loopTick(raw, throws)
          \/ attackDurationCompleted
          \/ interrupt]_vars

\* C14: whenever executeAttack() finishes, by normal completion or by raising, the
\* transport resources are released: the manager is closed (no tracked socket, not ready)
\* and the attack connection is destroyed.
C14_FinishedIsReleased ==
    rawSocket.execution \in {"finished", "raised"} =>
        /\ ~rawSocket.isInitialized
        /\ ~rawSocket.tracked
        /\ rawSocket.socket \in {"none", "destroyed"}

\* C15: initialize() is idempotent and memoized: however many callers call it, one after
\* another or while it is in flight, initializeRawSocket runs exactly once, and a caller's
\* initialize() completes only once that single run has finished.
C15_InitializeOnce ==
    /\ rawSocket.bodyRuns <= 1
    /\ (rawSocket.waiting \cup rawSocket.completed # {}) => rawSocket.bodyRuns = 1
    /\ rawSocket.completed # {} => rawSocket.initializationPromise = "resolved"
    /\ rawSocket.waiting # {} => rawSocket.initializationPromise = "pending"

C15_Witness ==
    /\ Callers \cup {"executeAttack", "establishConnection"} \subseteq rawSocket.completed
    /\ rawSocket.bodyRuns = 1

\* C16: sendPacket raises only when the manager is not initialized; on an initialized
\* manager it never raises, whatever the raw-send and socket-manipulation strategies do.
C16_SendRaisesOnlyUninitialized ==
    rawSocket.send.called => (rawSocket.send.raised <=> ~rawSocket.send.wasInitialized)

C16_Witness ==
    /\ rawSocket.send.called
    /\ rawSocket.send.wasInitialized
    /\ rawSocket.send.via = "simulation"
    /\ rawSocket.socket = "ended"

\* The entry point under HTTP control requests and one realtime client
SpecApp ==
    /\ InitWith({StrictConfig}, IdleAttack)
    /\ [][\/ \E fail \in BOOLEAN : connection(fail)
          \/ disconnect
          \/ \E op \in ControlOps, fail \in BOOLEAN : postServer(op, fail)
          \/ \E event \in RealtimeEvents, fail \in BOOLEAN : realtimeEvent(event, fail)
          \/ useWebSocket
          \/ \E op \in ControlOps, fail \in BOOLEAN : handleServer(op, fail)]_vars

\* C17: a connected client's stop-server (start-server) on the realtime channel makes the
\* server broadcast server-status false (true), with the metrics emission stopped
\* (started), exactly as POST /api/server/stop (/api/server/start) does.
C17_RealtimeControlsAsHttp ==
    (app.last.channel = "realtime" /\ app.last.op \in {"start-server", "stop-server"}) =>
        /\ app.last.sent # <<>>
        /\ app.last.sent[Len(app.last.sent)] =
                Emit("server-status", app.last.op = "start-server", "all")
        /\ app.isServerRunning = (app.last.op = "start-server")

\* Playlist requests over every state of the stream directory
SpecPlaylist ==
    /\ InitWith({StrictConfig}, IdleAttack)
    /\ [][\E client \in PlaylistClients, dir \in StreamDirectories :
                handlePlaylist(client, dir)]_vars

\* The .ts entries of the directory the last playlist was generated from
tsFiles == {f \in stream.dir.entries : endsWith(f, ".ts")}

\* The lines of the served playlist after its four header lines
playlistBody == LET lines == split(stream.playlist) IN SubSeq(lines, 5, Len(lines))

\* The served playlist lists exactly the directory's .ts files in sorted order, each
\* after an #EXTINF:10.0, line, and ends with #EXT-X-ENDLIST
PlaylistListsDirectory ==
    LET n == Cardinality(tsFiles)
    IN  /\ Len(playlistBody) = 2 * n + 1
        /\ playlistBody[2 * n + 1] = <<"#", "EXT-X-ENDLIST">>
        /\ \A k \in 1..n : /\ playlistBody[2 * k - 1] = <<"#", "EXTINF:10.0,">>
                            /\ playlistBody[2 * k] \in tsFiles
        /\ \A j, k \in 1..n : j < k => Precedes(playlistBody[2 * j], playlistBody[2 * k])

\* The client parse gives back the listed file names, in the playlist's order
ParseRecoversFiles ==
    /\ Len(stream.streamSegments) = Cardinality(tsFiles)
    /\ \A k \in 1..Len(stream.streamSegments) : stream.streamSegments[k] = playlistBody[2 * k]

\* A file name the playlist format carries as it is: no leading "#", no outer blank
PlainName(f) == ~startsWith(f, "#") /\ trim(f) = f

SpecFileDownload ==
    /\ InitWith({StrictConfig}, IdleAttack)
    /\ [][\E file \in DataFiles, range \in RangeHeaders :
                handleFileDownload(file, range)]_vars

SpecResults ==
    /\ InitWith({StrictConfig}, IdleAttack)
    /\ [][\/ \E baseline \in BaselineSpeeds, attack \in AttackSpeeds :
                measureSpeeds(baseline, attack)
          \/ calculateSpeedImprovement
          \/ displayFinalResults]_vars

\* C20 as stated: the CLI's final-results verdict is "highly successful" above 20,
\* "successful" above 5 up to 20, "marginal" above 0 up to 5, "no improvement detected"
\* otherwise, and "stopped abruptly" instead when no speed figures are available.
C20_FourTierVerdict ==
    results.phase = "shown" =>
        results.verdict =
            IF results.baselineSpeed > 0 /\ results.attackSpeed > 0
            THEN (IF results.speedImprovement > 20 THEN "highly successful"
                  ELSE IF results.speedImprovement > 5 THEN "successful"
                  ELSE IF results.speedImprovement > 0 THEN "marginal"
                  ELSE "no improvement detected")
            ELSE "stopped abruptly"

\* C20 amended: the CLI's final results have three tiers ("successful" above 5, "marginal"
\* above 0 up to 5, "no improvement detected" otherwise) or "stopped abruptly" without
\* both speeds; the four tiers, with "highly successful" above 20, are those of the
\* orchestrator's speed analysis.
C20_ThreeTierVerdict ==
    /\ results.phase = "shown" =>
            results.verdict =
                IF results.baselineSpeed > 0 /\ results.attackSpeed > 0
                THEN (IF results.speedImprovement > 5 THEN "successful"
                      ELSE IF results.speedImprovement > 0 THEN "marginal"
                      ELSE "no improvement detected")
                ELSE "stopped abruptly"
    /\ results.analysis # "none" =>
            /\ results.analysis = "highly successful" <=> results.speedImprovement > 20
            /\ results.analysis = "successful" <=>
                    (results.speedImprovement > 5 /\ results.speedImprovement <= 20)
            /\ results.analysis = "marginal" <=>
                    (results.speedImprovement > 0 /\ results.speedImprovement <= 5)

C20_Witness ==
    /\ results.phase = "shown"
    /\ results.speedImprovement = 30
    /\ results.analysis = "highly successful"
    /\ results.verdict = "successful"

\* One executeAttack with every run configuration
SpecRun ==
    /\ InitWith({StrictConfig}, IdleAttack)
    /\ [][\/ \E cfg \in RunConfigs, connects \in BOOLEAN : runExecuteAttack(cfg, connects)
          \/ transferRequest
          \/ \E connects \in BOOLEAN : baselineEnds(connects)
          \/ \E failed \in BOOLEAN : transferEnds(failed)
          \/ runTick
          \/ runDurationElapsed
          \/ runStopAttack]_vars

\* C21: while a streaming transfer is active the loop ticks every
\* max(packetInterval / 4, 10) ms, otherwise every packetInterval ms.
C21_AdaptivePeriod ==
    run.ticks > 0 =>
        run.lastGap = IF run.tickStreaming
                      THEN Max(run.config.packetInterval \div 4, 10)
                      ELSE run.config.packetInterval

\* C22: in a measureSpeed run every chunk or segment request of the baseline phase carries
\* the browser-like user agent and every one of the attack phase the attack-tool user
\* agent; no baseline request carries an attack user agent.
C22_UserAgentByPhase ==
    run.config.measureSpeed =>
        \A k \in 1..Len(run.requests) :
            /\ run.requests[k].phase = "baseline" => run.requests[k].userAgent = BrowserAgent
            /\ run.requests[k].phase = "attack" =>
                    run.requests[k].userAgent \in {AttackToolAgent, HLSClientAgent}

\* The same run once its duration timer must fire: setTimeout is not cancelled by anything
SpecRunFair == SpecRun /\ WF_vars(runDurationElapsed)

\* C23: once started the loop terminates; its completion is signalled by the first tick
\* after stopAttack() or by the duration timer, whichever comes first, and no tick that
\* begins after that sends a packet.
C23_LoopTerminates ==
    /\ (run.loop = "running") ~> (run.loop = "resolved")
    /\ [](run.lateTicks <= 1 /\ (run.lateTicks = 1 => run.loop = "resolved"))
    /\ [][(run.loop = "resolved" \/ ~run.isAttackActive) => run'.ticks = run.ticks]_vars

C23_Witness ==
    /\ run.lateTicks = 1
    /\ run.ticks > 0
    /\ run.loop = "resolved"

\* C24 as stated: when the transfer that runs beside the loop fails as a whole,
\* executeAttack() rejects with that error rather than completing normally.
C24_TransferFailureRejects ==
    (run.transfer = "failed" /\ run.outcome # "pending") => run.outcome = "rejected"

\* C24 amended: a failed concurrent transfer is caught by startConcurrentTransfer, which
\* clears transferActive; executeAttack keeps waiting for the loop and then completes
\* normally.
C24_TransferFailureIsSwallowed ==
    run.transfer = "failed" =>
        /\ ~run.transferActive
        /\ run.outcome # "rejected"
        /\ run.outcome = "resolved" <=> run.loop = "resolved"

C24_Witness ==
    /\ run.transfer = "failed"
    /\ run.outcome = "resolved"
    /\ run.ticks > 0

\* C25: the server-status sent to a newly connected client, and in reply to
\* request-server-status, equals the value most recently broadcast by a start/stop
\* control action: false after POST /api/server/stop until the next start.
C25_StatusIsCurrent ==
    LET broadcasts == SelectSeq(app.emitted, LAMBDA e : e.event = "server-status"
                                                        /\ e.to = "all")
        replies == SelectSeq(app.last.sent, LAMBDA e : e.event = "server-status")
    IN  (/\ app.last.op \in {"connection", "request-server-status"}
         /\ broadcasts # <<>>) =>
            /\ replies # <<>>
            /\ replies[1].value = broadcasts[Len(broadcasts)].value

\* C26: the dashboard's start/stop uses the realtime channel only when a channel is open;
\* whenever none is open, also after a disconnect or a failed connection attempt, it
\* calls POST /api/server/start or /api/server/stop.
C26_HttpWhenNotConnected ==
    app.last.op \in {"handleStartServer", "handleStopServer"} =>
        (app.last.channel = "realtime" <=> app.connected)

\* Range headers as split("-") leaves them: bytes=a-b around the 100 MB span, bytes=a-,
\* bounds that are not numbers, and bytes=-5-10, whose first part is empty
SpecRange ==
    /\ InitMiddleware
    /\ [][\E ua \in {<<"MyPlayer">>, <<"Mozilla/">>},
            range \in {NoRange, <<EmptyPart, Num(5), Num(10)>>}
                        \cup ({Num(0), Num(5), Num(100), TextPart}
                              \X {Num(0), Num(5), Num(100), Num(LargeRangeBytes + 100),
                                  Num(LargeRangeBytes + 101), EmptyPart, TextPart}) :
                createDownloadProtection(Request(IPv4, ua, "", {}, range, <<>>, <<>>))]_vars

\* C27: for a non-whitelisted request that matches no earlier rule, detectExplicitAttack
\* rejects a Range header that is malformed (non-numeric bounds), has end < start
\* (including end = 0), has start < 0, or spans more than 100 MB, and allows every other.
C27_AbnormalRanges ==
    (/\ response.entry = "download"
     /\ ~response.wasBlocked
     /\ ~isLegitimateClient(response.req.userAgent)
     /\ response.req.range # NoRange) =>
        LET parts == response.req.range
            numeric == parts[1].kind = "num" /\ parts[2].kind = "num"
        IN  response.status = 403 <=>
                \/ parts[1].kind = "text" \/ parts[2].kind = "text"
                \/ Len(parts) = 3 /\ parts[1] = EmptyPart
                \/ numeric /\ parts[2].n < parts[1].n
                \/ numeric /\ parts[2].n - parts[1].n > LargeRangeBytes

\* One connection whose window sizes vary around the 1.5 factor (3 is exactly 1.5 times 2),
\* and a second one whose window never changes
SpecWindowGrowth ==
    /\ InitWith({StrictConfig}, IdleAttack)
    /\ [][/\ Len(traffic.trafficHistory) < MaxWindowPackets
          /\ \E packet \in {TrafficPattern("10.0.0.1", 40001, 0, w) : w \in {1, 2, 3, 4, 8}}
                            \cup {TrafficPattern("10.0.0.1", 40002, 0, 1)} :
                   analyzePacket(packet)]_vars

\* Two connections whose ack numbers lie around one million and around 2^20
SpecSequenceGaps ==
    /\ InitWith({StrictConfig}, IdleAttack)
    /\ [][/\ Len(traffic.trafficHistory) < MaxGapPackets
          /\ \E port \in {40001, 40002}, ack \in {0, 1000000, 1000001, 1048577} :
                   analyzePacket(TrafficPattern("10.0.0.1", port, ack, 1))]_vars

\* the window sizes recorded for the connection of the last packet, and whether the step
\* ending at the i-th of the last five grew by more than 1.5 times
LastWindows ==
    traffic.windowSizeHistory[
        connectionKey(traffic.trafficHistory[Len(traffic.trafficHistory)])]
Grew(i) ==
    LET h == LastWindows
        at(k) == h[Len(h) - 5 + k]
    IN  2 * at(i) > 3 * at(i - 1)

\* C28 (as stated): abnormalWindowGrowth is true for a connection if and only if, among
\* its last 5 recorded window sizes (at least 5 on record), at least 3 consecutive steps
\* each grew by more than 1.5 times.
C28_ThreeConsecutiveSteps ==
    traffic.analyzed =>
        (traffic.signature.abnormalWindowGrowth <=>
            /\ Len(LastWindows) >= 5
            /\ \E i \in 2..3 : Grew(i) /\ Grew(i + 1) /\ Grew(i + 2))

\* C28 (amended): abnormalWindowGrowth is true for a connection if and only if it has at
\* least 5 window sizes on record and at least 3 of the 4 steps between its last 5 grew by
\* more than 1.5 times, in a row or not.
C28_ThreeOfFourSteps ==
    traffic.analyzed =>
        (traffic.signature.abnormalWindowGrowth <=>
            /\ Len(LastWindows) >= 5
            /\ Cardinality({i \in 2..5 : Grew(i)}) >= 3)

\* three growing steps that are not in a row, reported
C28_Witness ==
    /\ traffic.analyzed
    /\ traffic.signature.abnormalWindowGrowth
    /\ Len(LastWindows) >= 5
    /\ ~Grew(4)

\* the last packet, and the one before it from the same connection (none: <<>>)
LastPacket == traffic.trafficHistory[Len(traffic.trafficHistory)]
PrecedingPackets ==
    SelectSeq(SubSeq(traffic.trafficHistory, 1, Len(traffic.trafficHistory) - 1),
              LAMBDA p : connectionKey(p) = connectionKey(LastPacket))
AckGap == Abs(LastPacket.ackNumber - PrecedingPackets[Len(PrecedingPackets)].ackNumber)

\* C29 (as stated): sequenceGaps is true for a packet if and only if the same connection
\* has an immediately preceding packet on record and the absolute difference between the
\* two ack numbers exceeds 1,048,576.
C29_GapOver2To20 ==
    traffic.analyzed =>
        (traffic.signature.sequenceGaps <=> (PrecedingPackets # <<>> /\ AckGap > 1048576))

\* C29 (amended): sequenceGaps is true for a packet if and only if the same connection
\* has an immediately preceding packet on record and the absolute difference between the
\* two ack numbers exceeds 1,000,000.
C29_GapOverOneMillion ==
    traffic.analyzed =>
        (traffic.signature.sequenceGaps <=> (PrecedingPackets # <<>> /\ AckGap > 1000000))

\* a gap between one million and 2^20 is reported, across a packet of another connection
C29_Witness ==
    /\ traffic.analyzed
    /\ traffic.signature.sequenceGaps
    /\ PrecedingPackets # <<>>
    /\ AckGap <= 1048576
    /\ connectionKey(traffic.trafficHistory[Len(traffic.trafficHistory) - 1])
            # connectionKey(LastPacket)

SpecConnections ==
    /\ InitWith({StrictConfig}, IdleAttack)
    /\ [][\/ \E ip \in AnalyzerIPs, type \in ConnectionTypes, random \in RandomSuffixes :
               logConnection(ip, type, random)
          \/ closeConnection
          \/ analyzerClock]_vars

\* C30: after closeConnection(connectionId) for an id returned by logConnection, the id is
\* out of the active set and the history entry of that connection carries its duration,
\* so that averageConnectionDuration counts it whenever the duration is not zero.
C30_CloseRecordsDuration ==
    \A i \in 1..Len(connectionAnalyzer.returned) :
        LET r == connectionAnalyzer.returned[i]
            entry == connectionAnalyzer.connections[r.ip][r.index]
        IN  r.closed =>
                /\ r.id \notin connectionAnalyzer.activeConnections
                /\ entry.duration # <<>>
                /\ entry.duration[1] > 0 =>
                        connectionAnalyzer.metrics.averageConnectionDuration[1] > 0

\* One connection watched over eleven minutes, with rate limiting on (StrictConfig) and
\* off (the server's medium mode), by packets with and without the ACK flag
SpecCleanup ==
    /\ InitWith({StrictConfig, ServerConfig("medium")}, IdleAttack)
    /\ [][\/ \E flags \in {{}, ACK} :
               observedValidateConnection(IPv4, "0", [BenignPacket EXCEPT !.flags = flags])
          \/ cleanupExpiredStates
          \/ cleanupPeriodPasses]_vars

\* C31: a connection state is evicted by the periodic cleanup only if no
\* validateConnection call for that connection occurred during the preceding 10 minutes:
\* a connection seen within the last 10 minutes is still tracked, in every DefenseConfig
\* and for ACK and non-ACK packets alike.
C31_ObservedIsKept ==
    \A c \in DOMAIN observed :
        now - observed[c] <= InactiveMs => c \in DOMAIN connectionStates

\* One connection sending packets with and without the ACK flag 400 ms or 1001 ms apart,
\* under a limit of 3 ACKs (TightConfig), of 300, and with rate limiting off
SpecRate ==
    /\ InitWith({TightConfig, StrictConfig, ServerConfig("medium")}, IdleAttack)
    /\ [][\/ \E flags \in {{}, ACK} :
               loggedValidateConnection(IPv4, "0", [BenignPacket EXCEPT !.flags = flags])
          \/ \E ms \in {400, 1001} : millisecondsPass(ms)]_vars

\* The count after the ACKs at `times`: sinceLast restarts it when more than 1000 ms
\* separate an ACK from the one before, otherwise when more than 1000 ms separate it
\* from the opening of the window (the creation of the state, or the last restart)
RECURSIVE AckWindow(_, _, _, _)
AckWindow(times, mark, count, sinceLast) ==
    IF times = <<>> THEN count
    ELSE LET t == Head(times)
             restart == t - mark > 1000
         IN  AckWindow(Tail(times),
                       IF restart \/ sinceLast THEN t ELSE mark,
                       IF restart THEN 1 ELSE count + 1,
                       sinceLast)

LastCallLog == ackLog[connectionId(lastCall.ip, lastCall.port)]

\* the last call is a validateConnection: limited exactly when its count exceeds the limit
RateLimited(sinceLast) ==
    lastCall.op = "validateConnection" =>
        LET limited == lastCall.action.type = "rate_limit"
        IN  /\ limited <=>
                /\ config.rateLimitingEnabled
                /\ "ACK" \in lastCall.packet.flags
                /\ AckWindow(LastCallLog.acks, LastCallLog.created, 0, sinceLast)
                        > 3 * config.maxACKsPerSecond
            /\ limited =>
                /\ ~lastCall.allowed
                /\ lastConnection.anomalyScore = Min(100, lastCall.scoreBefore + 20)

\* C32 (as stated): with rate limiting enabled, ACK-flagged packets on one connection
\* are counted in a 1-second window that is reset when more than 1000 ms have elapsed
\* since the last ACK; a packet is rejected with action rate_limit (anomaly score +0.2)
\* exactly when the count exceeds 3 * maxACKsPerSecond, and packets without the ACK flag
\* are never rate-limited.
C32_WindowSinceLastAck == RateLimited(TRUE)

\* C32 (amended): the window is reset when more than 1000 ms have elapsed since it was
\* opened, by the creation of the connection state or by the last reset; the rest as
\* stated.
C32_WindowSinceOpened == RateLimited(FALSE)

\* a fourth ACK within the second is limited, under the limit of 3
C32_Witness ==
    /\ lastCall.op = "validateConnection"
    /\ lastCall.action.type = "rate_limit"
    /\ Len(LastCallLog.acks) = 4
    /\ now > 0

\* C33: in every reachable state every tracked connection's anomalyScore lies in [0, 1]
\* (0 to 100 hundredths), under any sequence of validateConnection,
\* markConnectionSuspicious, quarantine, release and cleanup operations.
C33_ScoreInUnitInterval ==
    \A c \in DOMAIN connectionStates :
        connectionStates[c].anomalyScore >= 0 /\ connectionStates[c].anomalyScore <= 100

\* a score already at 1 is raised again and stays at 1
C33_Witness ==
    /\ lastCall.op \in {"markConnectionSuspicious", "runDefenseChecks"}
    /\ lastCall.scoreBefore = 100
    /\ connectionId(lastCall.ip, lastCall.port) \in DOMAIN connectionStates
    /\ lastConnection.anomalyScore = 100

\* One client that reaches the quarantine threshold more than once, with a quarantine of
\* 2 minutes (TightConfig) and without quarantine (the server's low mode), and the timers
\* of the quarantine and of the blocklist
SpecBlocklist ==
    /\ InitWith({TightConfig, ServerConfig("low")}, IdleAttack)
    /\ [][\/ validateWithSignature(IPv4, "0", BenignPacket, TwoIndicators)
          \/ markConnectionSuspicious(IPv4, "0")
          \/ \E timer \in quarantineTimers : quarantineTimeout(timer)
          \/ \E release \in blocklistTimers : blocklistTimeout(release)
          \/ timePasses]_vars

\* C34: every promotion of an IP to the blocklist at time t keeps that IP blocklisted for
\* a full 30 minutes from t, including a second promotion made while the release timer
\* of an earlier one is pending: an IP whose release is still ahead is on the blocklist.
C34_BlockedForThirtyMinutes ==
    \A timer \in blocklistTimers : now < timer.at => timer.ip \in blocklist

\* C35: after close(), a subsequent initialize() re-initializes the manager: when a call
\* made on a closed manager (initialized once, then closed: its promise is resolved and it
\* is not ready) returns, isReady() is true, so that sendPacket no longer raises.
C35_InitializeAfterClose ==
    [][\A caller \in Callers \cup {"executeAttack", "establishConnection"} :
            (/\ rawSocket.initializationPromise = "resolved"
             /\ ~rawSocket.isInitialized
             /\ caller \notin rawSocket.completed
             /\ caller \in rawSocket'.completed) => rawSocket'.isInitialized]_vars

SpecPanel ==
    /\ InitWith({StrictConfig}, IdleAttack)
    /\ [][\/ handleStartStream
          \/ \E r \in 1..MaxStarts, segments \in 0..MaxSegments : playlistArrives(r, segments)
          \/ \E r \in 1..MaxStarts, ok \in BOOLEAN : segmentFetched(r, ok)
          \/ \E r \in 1..MaxStarts : pauseEnds(r)
          \/ handleStopStream
          \/ handleClearStats]_vars

\* C36: in every reachable state of the Live Streaming Panel the number of fetched
\* segments does not exceed the playlist's segment count (segmentCount <= totalSegments),
\* under any interleaving of Start, Stop, Clear and segment-fetch completions.
C36_CountWithinPlaylist == panel.segmentCount <= panel.totalSegments

\* C37: whenever the Defense System records or emits a defense action of type quarantine
\* for a connection, that connection's IP is in the quarantine set immediately afterwards,
\* in every DefenseConfig (quarantineEnabled = false included) and for any AttackSignature
\* evaluated by runDefenseChecks.
C37_QuarantineActionQuarantines ==
    [][(/\ calls' = calls + 1
        /\ \E i \in DOMAIN lastCall'.emitted : lastCall'.emitted[i].type = "quarantine")
            => lastCall'.ip \in quarantinedIPs']_vars

\* Command lines of the defense flags, their values, and a port
SpecCommandLine ==
    /\ InitWith({StrictConfig}, IdleAttack)
    /\ [][\E arg \in {"--defense", "--defense-mode", "--no-defense", "on", "off", "high",
                        "--port", "8080"} : startWithArgument(arg)]_vars

\* C38: for every argument list the configuration produced by parseArgs is consistent:
\* defense is true if and only if defenseMode is not 'off', whatever the order and
\* repetition of --defense, --defense-mode and --no-defense.
C38_DefenseIffModeNotOff == cli.result.defense <=> cli.result.defenseMode # "off"

\* The analyzer over more than a day: connections logged, some closed, the periodic cleanup
SpecConnectionHistory ==
    /\ InitWith({StrictConfig}, IdleAttack)
    /\ [][\/ \E ip \in AnalyzerIPs, type \in ConnectionTypes, random \in RandomSuffixes :
               logConnection(ip, type, random)
          \/ closeConnection
          \/ analysisIntervalFires
          \/ halfDayPasses]_vars

\* C39: in every reachable state of the Connection Analyzer the reported activeConnections
\* count does not exceed the reported totalConnections count, under any sequence of
\* logConnection, closeConnection and periodic cleanup.
C39_ActiveWithinTotal ==
    connectionAnalyzer.metrics.activeConnections
        <= connectionAnalyzer.metrics.totalConnections

\* Two clients, one with an IPv4 address and one with the IPv6 loopback address ::1, each
\* validated with two attack indicators until it is quarantined, and their next requests
SpecPromotion ==
    /\ InitWith({TightConfig}, IdleAttack)
    /\ [][\/ \E ip \in IPs : validateWithSignature(ip, "0", BenignPacket, TwoIndicators)
          \/ \E ip \in IPs, ua \in UserAgents :
                createRequestFilter(Request(ip, ua, "", {}, NoRange, <<>>, <<>>))]_vars

====
